---- MODULE Spec2Model ----
(***************************************************************************)
(* State machine of the forum runtime module                               *)
(* (runtime-modules/forum/src/lib.rs): the category tree, threads, posts,  *)
(* moderator assignments, polls, and the dispatchable operations on them;  *)
(* and of the blog runtime module (runtime-modules/blog/src/lib.rs): its   *)
(* posts, their locks and their replies.                                   *)
(*                                                                         *)
(* Storage maps are partial functions.  A read of an absent key yields the *)
(* value type's Default, and `mutate` of an absent key writes the mutated  *)
(* Default back, as the storage API of the code does.                      *)
(*                                                                         *)
(* Unsigned counters are kept as representatives of their residue class:   *)
(* 0, 1, 2, ... are themselves and -k stands for 2^w - k, so that          *)
(* 0 - 1 = -1 is the wrapped value u32::MAX.  An arithmetic overflow either *)
(* aborts the call (a build with overflow checks) or wraps (a build        *)
(* without); both outcomes are transitions of the model.                   *)
(***************************************************************************)
EXTENDS Integers, Sequences, FiniteSets, TLC

(* ---- bounds of the model ---- *)
NumCategoryIds == 3
NumThreadIds == 1
NumPostIds == 1
NumModerators == 1
NumUsers == 2
MaxTime == 1
MaxVotes == 2
MaxWrap == 1
MaxCalls == 4

(* ---- configuration of the runtime (trait constants, genesis) ---- *)
MaxCategoryDepth == 2
MaxSubcategories == 2
MaxThreadsInCategory == 1
MaxPostsInThread == 2
MaxModeratorsForCategory == 2
MaxCategories == 3
PollItemsMin == 2
PollItemsMaxMinDiff == 1
\* The number of values of u16, the type a length is cast to before it is compared.
U16Range == 65536

VARIABLES
    CategoryById,        \* CategoryId -> Category
    NextCategoryId,
    CategoryCounter,
    ThreadById,          \* <<CategoryId, ThreadId>> -> Thread
    NextThreadId,
    PostById,            \* <<ThreadId, PostId>> -> Post
    NextPostId,
    CategoryByModerator, \* set of <<CategoryId, ModeratorId>>
    DataMigrationDone,
    now,                 \* pallet_timestamp::now()
    result,              \* what the last call returned
    events,              \* the events the last call deposited
    call,                \* who made the last successful call, on which category (history)
    ncalls,              \* how many calls were made (history)
    PostCount,           \* blog: the number of posts
    BlogPostById,        \* blog: PostId -> Post (PostById of the blog module)
    ReplyById            \* blog: <<PostId, ReplyId>> -> Reply

vars == <<CategoryById, NextCategoryId, CategoryCounter, ThreadById, NextThreadId,
          PostById, NextPostId, CategoryByModerator, DataMigrationDone, now,
          result, events, call, ncalls, PostCount, BlogPostById, ReplyById>>

store == <<CategoryById, NextCategoryId, CategoryCounter, ThreadById, NextThreadId,
           PostById, NextPostId, CategoryByModerator, DataMigrationDone>>

\* The storage of the blog module.
blog == <<PostCount, BlogPostById, ReplyById>>

(* ---- values ---- *)
None == <<>>
Some(x) == <<x>>

Lead == [kind |-> "Lead", id |-> 0]
Moderator(m) == [kind |-> "Moderator", id |-> m]

CategoryIds == 0..NumCategoryIds
ThreadIds == 1..NumThreadIds
PostIds == 1..NumPostIds
ModeratorIds == 1..NumModerators
ForumUserIds == 1..NumUsers
Accounts == 0..NumUsers
Actors == {Lead} \cup {Moderator(m) : m \in ModeratorIds}

LeadAccount == 0
is_lead(account_id) == account_id = LeadAccount
is_forum_member(account_id, forum_user_id) == account_id = forum_user_id
is_moderator(account_id, moderator_id) == account_id = moderator_id

\* T::calculate_hash: a hash of the text, never the text itself.
calculate_hash(text) == 100 + text

DefaultCategory ==
    [title_hash |-> 0, description_hash |-> 0, archived |-> FALSE,
     num_direct_subcategories |-> 0, num_direct_threads |-> 0,
     num_direct_moderators |-> 0, parent_category_id |-> None,
     sticky_thread_ids |-> <<>>]

DefaultThread ==
    [title_hash |-> 0, category_id |-> 0, author_id |-> 0, archived |-> FALSE,
     poll |-> None, num_direct_posts |-> 0]

DefaultPost == [thread_id |-> 0, text_hash |-> 0, author_id |-> 0]

(* ---- the storage API ---- *)
contains_key(map, k) == k \in DOMAIN map
get(map, k, default) == IF k \in DOMAIN map THEN map[k] ELSE default
insert(map, k, v) == [x \in DOMAIN map \cup {k} |-> IF x = k THEN v ELSE map[x]]
remove(map, k) == [x \in DOMAIN map \ {k} |-> map[x]]
remove_prefix(map, k1) == [x \in {y \in DOMAIN map : y[1] # k1} |-> map[x]]

GetCategory(cats, c) == get(cats, c, DefaultCategory)
GetThread(threads, c, t) == get(threads, <<c, t>>, DefaultThread)

(* ---- unsigned arithmetic on representatives ---- *)
Underflows(x) == x = 0
Overflows(x) == x = -1

\* The blog module's storage has no genesis configuration: it starts empty.
BlogGenesis ==
    /\ PostCount = 0
    /\ BlogPostById = <<>>
    /\ ReplyById = <<>>

Init ==
    /\ CategoryById = <<>>
    /\ NextCategoryId = 1
    /\ CategoryCounter = 0
    /\ ThreadById = <<>>
    /\ NextThreadId = 1
    /\ PostById = <<>>
    /\ NextPostId = 1
    /\ CategoryByModerator = {}
    /\ DataMigrationDone \in BOOLEAN
    /\ now = 0
    /\ result = "Init"
    /\ events = <<>>
    /\ call = <<>>
    /\ ncalls = 0
    /\ BlogGenesis

(* ---- outcomes of a call ---- *)
\* An error return: the dispatchable returns before its mutation phase.
Fail(err) ==
    /\ result' = err
    /\ events' = <<>>
    /\ UNCHANGED <<store, now>>

\* An abort (failed assert!, arithmetic overflow under overflow checks, stack
\* exhaustion): the call's changes are discarded with it.
Panic == Fail("Panic")

(* ---- the ancestor path ---- *)
\* _build_category_tree_path: the ids from category_id to the root.  The recursion
\* ends abnormally when a parent is not stored (the assert! fails) and never
\* returns on a cyclic parent chain (the stack is exhausted): `ok` is FALSE then.
RECURSIVE build_category_tree_path_from(_, _, _)
build_category_tree_path_from(cats, category_id, fuel) ==
    LET category == GetCategory(cats, category_id) IN
    IF category.parent_category_id = None
    THEN [ok |-> TRUE, path |-> <<category_id>>]
    ELSE LET parent_category_id == category.parent_category_id[1] IN
         IF ~contains_key(cats, parent_category_id) \/ fuel = 0
         THEN [ok |-> FALSE, path |-> <<category_id>>]
         ELSE LET rest == build_category_tree_path_from(cats, parent_category_id, fuel - 1)
              IN [ok |-> rest.ok, path |-> <<category_id>> \o rest.path]

build_category_tree_path(category_id) ==
    build_category_tree_path_from(CategoryById, category_id, Cardinality(DOMAIN CategoryById))

PathIds(category_id) ==
    LET p == build_category_tree_path(category_id).path IN {p[i] : i \in 1..Len(p)}

(* ---- validation: each returns "Ok" or the error the code returns ---- *)
ensure_data_migration_done == IF DataMigrationDone THEN "Ok" ELSE "DataMigrationNotDone"

ensure_is_forum_lead_account(account_id) ==
    IF is_lead(account_id) THEN "Ok" ELSE "OriginNotForumLead"

ensure_is_forum_user(account_id, forum_user_id) ==
    IF is_forum_member(account_id, forum_user_id) THEN "Ok" ELSE "ForumUserIdNotMatchAccount"

ensure_is_moderator_account(account_id, moderator_id) ==
    IF is_moderator(account_id, moderator_id) THEN "Ok" ELSE "ModeratorIdNotMatchAccount"

ensure_actor_role(account_id, actor) ==
    IF actor.kind = "Lead"
    THEN ensure_is_forum_lead_account(account_id)
    ELSE ensure_is_moderator_account(account_id, actor.id)

ensure_map_limits(current_amount, limit) ==
    IF current_amount < 0 \/ current_amount >= limit THEN "MapSizeLimit" ELSE "Ok"

ensure_can_mutate_in_path_leaf(category_tree_path) ==
    IF \E i \in 1..Len(category_tree_path) :
           GetCategory(CategoryById, category_tree_path[i]).archived
    THEN "AncestorCategoryImmutable"
    ELSE "Ok"

ensure_category_is_mutable(category_id) ==
    LET p == build_category_tree_path(category_id) IN
    IF ~p.ok THEN "Panic" ELSE ensure_can_mutate_in_path_leaf(p.path)

\* A variant that accepts a moderator assigned to any category at all.
check_moderator_anywhere(category_tree_path, moderator_id) ==
    IF \E c \in CategoryIds : <<c, moderator_id>> \in CategoryByModerator
    THEN "Ok"
    ELSE "ModeratorCantUpdateCategory"

check_moderator(category_tree_path, moderator_id) ==
    IF \E i \in 1..Len(category_tree_path) :
           <<category_tree_path[i], moderator_id>> \in CategoryByModerator
    THEN "Ok"
    ELSE "ModeratorCantUpdateCategory"

ensure_can_moderate_category_path(actor, category_id) ==
    LET p == build_category_tree_path(category_id) IN
    IF ~p.ok THEN "Panic"
    ELSE IF actor.kind = "Lead" THEN "Ok"
    ELSE check_moderator(p.path, actor.id)

ensure_can_moderate_category(account_id, actor, category_id) ==
    LET r == ensure_actor_role(account_id, actor) IN
    IF r # "Ok" THEN r ELSE ensure_can_moderate_category_path(actor, category_id)

ensure_thread_exists(category_id, thread_id) ==
    IF contains_key(ThreadById, <<category_id, thread_id>>) THEN "Ok" ELSE "ThreadDoesNotExist"

ensure_thread_is_mutable(category_id, thread_id) ==
    LET r == ensure_thread_exists(category_id, thread_id) IN
    IF r # "Ok" THEN r
    ELSE IF ThreadById[<<category_id, thread_id>>].archived THEN "ThreadImmutable"
    ELSE ensure_category_is_mutable(category_id)

ensure_post_exists(thread_id, post_id) ==
    IF contains_key(PostById, <<thread_id, post_id>>) THEN "Ok" ELSE "PostDoesNotExist"

ensure_post_is_mutable(category_id, thread_id, post_id) ==
    LET r == ensure_post_exists(thread_id, post_id) IN
    IF r # "Ok" THEN r ELSE ensure_thread_is_mutable(category_id, thread_id)

ensure_can_moderate_post(account_id, actor, category_id, thread_id, post_id) ==
    LET r == ensure_can_moderate_category(account_id, actor, category_id) IN
    IF r # "Ok" THEN r ELSE ensure_post_is_mutable(category_id, thread_id, post_id)

ensure_can_update_thread_archival_status(account_id, actor, category_id, thread_id) ==
    LET r1 == ensure_actor_role(account_id, actor) IN
    IF r1 # "Ok" THEN r1
    ELSE LET r2 == ensure_thread_is_mutable(category_id, thread_id) IN
         IF r2 # "Ok" THEN r2
         ELSE ensure_can_moderate_category_path(actor, category_id)

ensure_is_thread_author(category_id, thread_id, forum_user_id) ==
    LET r == ensure_thread_is_mutable(category_id, thread_id) IN
    IF r # "Ok" THEN r
    ELSE IF ThreadById[<<category_id, thread_id>>].author_id # forum_user_id
         THEN "AccountDoesNotMatchThreadAuthor"
         ELSE "Ok"

ensure_can_edit_thread_title(account_id, category_id, thread_id, forum_user_id) ==
    LET r == ensure_is_forum_user(account_id, forum_user_id) IN
    IF r # "Ok" THEN r ELSE ensure_is_thread_author(category_id, thread_id, forum_user_id)

ensure_can_moderate_thread(account_id, actor, category_id, thread_id) ==
    LET r == ensure_can_moderate_category(account_id, actor, category_id) IN
    IF r # "Ok" THEN r ELSE ensure_thread_exists(category_id, thread_id)

\* map_err replaces an error return; an abort is not a return and passes through.
map_err(r, err) == IF r \in {"Ok", "Panic"} THEN r ELSE err

\* The same checks with the comparison of the two categories made last.
ensure_can_move_thread_categories_last(account_id, actor, category_id, thread_id, new_category_id) ==
    LET r1 == map_err(ensure_can_moderate_thread(account_id, actor, category_id, thread_id),
                      "ModeratorModerateOriginCategory") IN
    IF r1 # "Ok" THEN r1
    ELSE LET r2 == map_err(ensure_can_moderate_category_path(actor, new_category_id),
                           "ModeratorModerateDestinationCategory") IN
         IF r2 # "Ok" THEN r2
         ELSE IF category_id = new_category_id THEN "ThreadMoveInvalid"
         ELSE "Ok"

ensure_can_move_thread(account_id, actor, category_id, thread_id, new_category_id) ==
    IF category_id = new_category_id THEN "ThreadMoveInvalid"
    ELSE LET r1 == map_err(ensure_can_moderate_thread(account_id, actor, category_id, thread_id),
                           "ModeratorModerateOriginCategory") IN
         IF r1 # "Ok" THEN r1
         ELSE map_err(ensure_can_moderate_category_path(actor, new_category_id),
                      "ModeratorModerateDestinationCategory")

\* The same checks with the archival of the path looked at before its length.
ensure_can_add_subcategory_path_leaf_archival_first(parent_category_id) ==
    IF ~contains_key(CategoryById, parent_category_id) THEN "CategoryDoesNotExist"
    ELSE LET p == build_category_tree_path(parent_category_id) IN
         IF ~p.ok THEN "Panic"
         ELSE IF ensure_can_mutate_in_path_leaf(p.path) # "Ok"
         THEN ensure_can_mutate_in_path_leaf(p.path)
         ELSE IF Len(p.path) >= MaxCategoryDepth THEN "MaxValidCategoryDepthExceeded"
         ELSE "Ok"

ensure_can_add_subcategory_path_leaf(parent_category_id) ==
    IF ~contains_key(CategoryById, parent_category_id) THEN "CategoryDoesNotExist"
    ELSE LET p == build_category_tree_path(parent_category_id) IN
         IF ~p.ok THEN "Panic"
         ELSE IF Len(p.path) >= MaxCategoryDepth THEN "MaxValidCategoryDepthExceeded"
         ELSE ensure_can_mutate_in_path_leaf(p.path)

ensure_can_create_category(account_id, parent_category_id) ==
    LET r1 == ensure_is_forum_lead_account(account_id) IN
    IF r1 # "Ok" THEN r1
    ELSE LET r2 == ensure_map_limits(CategoryCounter, MaxCategories) IN
         IF r2 # "Ok" THEN r2
         ELSE IF parent_category_id = None THEN "Ok"
         ELSE LET r3 == ensure_can_add_subcategory_path_leaf(parent_category_id[1]) IN
              IF r3 # "Ok" THEN r3
              ELSE ensure_map_limits(
                       GetCategory(CategoryById, parent_category_id[1]).num_direct_subcategories,
                       MaxSubcategories)

\* The same checks, followed by the one that the path of the category is mutable.
ensure_can_update_category_archival_status_on_mutable_path(account_id, actor, category_id) ==
    LET r == ensure_can_moderate_category(account_id, actor, category_id) IN
    IF r # "Ok" THEN r
    ELSE IF ~contains_key(CategoryById, category_id) THEN "CategoryDoesNotExist"
    ELSE ensure_category_is_mutable(category_id)

ensure_can_update_category_archival_status(account_id, actor, category_id) ==
    LET r == ensure_can_moderate_category(account_id, actor, category_id) IN
    IF r # "Ok" THEN r
    ELSE IF ~contains_key(CategoryById, category_id) THEN "CategoryDoesNotExist"
    ELSE "Ok"

\* The same checks with the permission looked up on the category itself, root or not.
ensure_can_delete_category_on_own_path(account_id, actor, category_id) ==
    LET r == ensure_actor_role(account_id, actor)
        category == GetCategory(CategoryById, category_id) IN
    IF r # "Ok" THEN r
    ELSE IF ~contains_key(CategoryById, category_id) THEN "CategoryDoesNotExist"
    ELSE IF category.num_direct_threads # 0 THEN "CategoryNotEmptyThreads"
    ELSE IF category.num_direct_subcategories # 0 THEN "CategoryNotEmptyCategories"
    ELSE map_err(ensure_can_moderate_category_path(actor, category_id),
                 "ModeratorCantDeleteCategory")

ensure_can_delete_category(account_id, actor, category_id) ==
    LET r == ensure_actor_role(account_id, actor)
        category == GetCategory(CategoryById, category_id) IN
    IF r # "Ok" THEN r
    ELSE IF ~contains_key(CategoryById, category_id) THEN "CategoryDoesNotExist"
    ELSE IF category.num_direct_threads # 0 THEN "CategoryNotEmptyThreads"
    ELSE IF category.num_direct_subcategories # 0 THEN "CategoryNotEmptyCategories"
    ELSE IF category.parent_category_id # None
         THEN map_err(ensure_can_moderate_category_path(actor, category.parent_category_id[1]),
                      "ModeratorCantDeleteCategory")
    ELSE IF actor.kind = "Lead" THEN "Ok"
    ELSE "ModeratorCantDeleteCategory"

ensure_can_update_category_membership_of_moderator(account_id, category_id) ==
    LET r == ensure_is_forum_lead_account(account_id) IN
    IF r # "Ok" THEN r
    ELSE IF ~contains_key(CategoryById, category_id) THEN "CategoryDoesNotExist"
    ELSE ensure_map_limits(GetCategory(CategoryById, category_id).num_direct_moderators,
                           MaxModeratorsForCategory)

ensure_can_create_thread(account_id, forum_user_id, category_id) ==
    LET r1 == ensure_is_forum_user(account_id, forum_user_id) IN
    IF r1 # "Ok" THEN r1
    ELSE LET r2 == ensure_category_is_mutable(category_id) IN
         IF r2 # "Ok" THEN r2
         ELSE ensure_map_limits(GetCategory(CategoryById, category_id).num_direct_threads,
                                MaxThreadsInCategory)

ensure_can_add_post(account_id, forum_user_id, category_id, thread_id) ==
    LET r == ensure_is_forum_user(account_id, forum_user_id) IN
    IF r # "Ok" THEN r ELSE ensure_thread_is_mutable(category_id, thread_id)

ensure_can_set_stickied_threads(account_id, actor, category_id, stickied_ids) ==
    LET r == ensure_can_moderate_category(account_id, actor, category_id) IN
    IF r # "Ok" THEN r
    ELSE IF \E i \in 1..Len(stickied_ids) :
                ensure_thread_exists(category_id, stickied_ids[i]) # "Ok"
    THEN "ThreadDoesNotExist"
    ELSE "Ok"

\* InputValidationLengthConstraint::ensure_valid on the number of alternatives.
ensure_poll_alternatives_length_is_valid(len) ==
    LET length == len % U16Range
        max == (PollItemsMin + PollItemsMaxMinDiff) % U16Range
    IN  IF length < PollItemsMin THEN "PollAlternativesTooShort"
        ELSE IF length > max THEN "PollAlternativesTooLong"
        ELSE "Ok"

ensure_poll_is_valid(poll) == IF poll.end_time < now THEN "PollTimeSetting" ELSE "Ok"

\* The same checks with a poll that is closed as soon as the clock reaches end_time.
ensure_vote_is_valid_closed_at_end_time(thread, index) ==
    IF thread.poll = None THEN "PollNotExist"
    ELSE IF thread.poll[1].end_time <= now THEN "PollCommitExpired"
    ELSE IF index >= Len(thread.poll[1].poll_alternatives) THEN "PollData"
    ELSE "Ok"

ensure_vote_is_valid(thread, index) ==
    IF thread.poll = None THEN "PollNotExist"
    ELSE IF thread.poll[1].end_time < now THEN "PollCommitExpired"
    ELSE IF index >= Len(thread.poll[1].poll_alternatives) THEN "PollData"
    ELSE "Ok"

(* ---- the dispatchables ---- *)
\* A wrapped counter is followed only MaxWrap steps below zero.
Representable(x) == x >= 0 - MaxWrap

Ok(event) ==
    /\ result' = "Ok"
    /\ events' = event

\* The clear_prefix(b"Forum ForumUserById") that precedes ensure_signed erases raw
\* keys outside the storage items of decl_storage: no variable of the model changes.
update_category_membership_of_moderator(origin, moderator_id, category_id, new_value) ==
    LET r0 == ensure_data_migration_done
        r == IF r0 # "Ok" THEN r0
             ELSE ensure_can_update_category_membership_of_moderator(origin, category_id)
        category == GetCategory(CategoryById, category_id)
        n == category.num_direct_moderators
    IN  IF r # "Ok" THEN Fail(r)
        ELSE IF new_value
        THEN /\ CategoryByModerator' = CategoryByModerator \cup {<<category_id, moderator_id>>}
             /\ CategoryById' = insert(CategoryById, category_id,
                                       [category EXCEPT !.num_direct_moderators = n + 1])
             /\ Ok(<<>>)
             /\ UNCHANGED <<NextCategoryId, CategoryCounter, ThreadById, NextThreadId,
                            PostById, NextPostId, DataMigrationDone, now>>
        ELSE \/ Underflows(n) /\ Panic
             \/ /\ Representable(n - 1)
                /\ CategoryByModerator' = CategoryByModerator \ {<<category_id, moderator_id>>}
                /\ CategoryById' = insert(CategoryById, category_id,
                                          [category EXCEPT !.num_direct_moderators = n - 1])
                /\ Ok(<<>>)
                /\ UNCHANGED <<NextCategoryId, CategoryCounter, ThreadById, NextThreadId,
                               PostById, NextPostId, DataMigrationDone, now>>

create_category(origin, parent_category_id, title, description) ==
    LET r0 == ensure_data_migration_done
        r == IF r0 # "Ok" THEN r0 ELSE ensure_can_create_category(origin, parent_category_id)
        next_category_id == NextCategoryId
        new_category ==
            [title_hash |-> calculate_hash(title),
             description_hash |-> calculate_hash(description),
             archived |-> FALSE,
             num_direct_subcategories |-> 0,
             num_direct_threads |-> 0,
             num_direct_moderators |-> 0,
             parent_category_id |-> parent_category_id,
             sticky_thread_ids |-> <<>>]
        cats1 == insert(CategoryById, next_category_id, new_category)
        cats2 == IF parent_category_id = None THEN cats1
                 ELSE LET c == GetCategory(cats1, parent_category_id[1]) IN
                      insert(cats1, parent_category_id[1],
                             [c EXCEPT !.num_direct_subcategories = @ + 1])
    IN  IF r # "Ok" THEN Fail(r)
        ELSE /\ NextCategoryId <= NumCategoryIds
             /\ CategoryById' = cats2
             /\ NextCategoryId' = NextCategoryId + 1
             /\ CategoryCounter' = CategoryCounter + 1
             /\ Ok(<<<<"CategoryCreated", next_category_id>>>>)
             /\ UNCHANGED <<ThreadById, NextThreadId, PostById, NextPostId,
                            CategoryByModerator, DataMigrationDone, now>>

update_category_archival_status(origin, actor, category_id, new_archival_status) ==
    LET r0 == ensure_data_migration_done
        r1 == IF r0 # "Ok" THEN r0
              ELSE ensure_can_update_category_archival_status(origin, actor, category_id)
        category == GetCategory(CategoryById, category_id)
        r == IF r1 # "Ok" THEN r1
             ELSE IF new_archival_status = category.archived THEN "CategoryNotBeingUpdated"
             ELSE "Ok"
    IN  IF r # "Ok" THEN Fail(r)
        ELSE /\ CategoryById' = insert(CategoryById, category_id,
                                       [category EXCEPT !.archived = new_archival_status])
             /\ Ok(<<<<"CategoryUpdated", category_id, new_archival_status>>>>)
             /\ UNCHANGED <<NextCategoryId, CategoryCounter, ThreadById, NextThreadId,
                            PostById, NextPostId, CategoryByModerator, DataMigrationDone, now>>

delete_category(origin, actor, category_id) ==
    LET r0 == ensure_data_migration_done
        r == IF r0 # "Ok" THEN r0 ELSE ensure_can_delete_category(origin, actor, category_id)
        category == GetCategory(CategoryById, category_id)
        cats1 == remove(CategoryById, category_id)
        parent == GetCategory(cats1, category.parent_category_id[1])
        cats2 == IF category.parent_category_id = None THEN cats1
                 ELSE insert(cats1, category.parent_category_id[1],
                             [parent EXCEPT !.num_direct_subcategories = @ - 1])
        underflow == \/ Underflows(CategoryCounter)
                     \/ /\ category.parent_category_id # None
                        /\ Underflows(parent.num_direct_subcategories)
    IN  IF r # "Ok" THEN Fail(r)
        ELSE \/ underflow /\ Panic
             \/ /\ Representable(CategoryCounter - 1)
                /\ \A c \in DOMAIN cats2 : Representable(cats2[c].num_direct_subcategories)
                /\ CategoryById' = cats2
                /\ CategoryCounter' = CategoryCounter - 1
                /\ Ok(<<<<"CategoryDeleted", category_id>>>>)
                /\ UNCHANGED <<NextCategoryId, ThreadById, NextThreadId, PostById, NextPostId,
                               CategoryByModerator, DataMigrationDone, now>>

\* add_new_post's validation phase, on the state it is called in.
add_new_post_check(category_id, thread_id) ==
    LET r0 == ensure_data_migration_done IN
    IF r0 # "Ok" THEN r0
    ELSE LET r1 == ensure_thread_is_mutable(category_id, thread_id) IN
         IF r1 # "Ok" THEN r1
         ELSE ensure_map_limits(GetThread(ThreadById, category_id, thread_id).num_direct_posts,
                                MaxPostsInThread)

\* add_new_post's mutation phase: the post map and the thread map it leaves.
add_new_post_posts(thread_id, text, author_id) ==
    insert(PostById, <<thread_id, NextPostId>>,
           [thread_id |-> thread_id, text_hash |-> calculate_hash(text), author_id |-> author_id])

add_new_post_threads(category_id, thread_id) ==
    insert(ThreadById, <<category_id, thread_id>>,
           [GetThread(ThreadById, category_id, thread_id) EXCEPT !.num_direct_posts = @ + 1])

\* add_new_thread's validation phase.
add_new_thread_check(category_id, poll) ==
    LET r0 == ensure_data_migration_done IN
    IF r0 # "Ok" THEN r0
    ELSE LET r1 == ensure_category_is_mutable(category_id) IN
         IF r1 # "Ok" THEN r1
         ELSE IF poll = None THEN "Ok"
         ELSE LET r2 == ensure_poll_alternatives_length_is_valid(Len(poll[1].poll_alternatives)) IN
              IF r2 # "Ok" THEN r2 ELSE ensure_poll_is_valid(poll[1])

\* add_new_thread's mutation phase.  The initial post is added first, to a thread
\* id that is not stored yet, and what add_new_post returns is dropped.
add_new_thread_mutation(category_id, author_id, title, text, poll, event) ==
    LET new_thread_id == NextThreadId
        post == add_new_post_check(category_id, new_thread_id)
        threads1 == IF post = "Ok" THEN add_new_post_threads(category_id, new_thread_id)
                    ELSE ThreadById
        new_thread ==
            [title_hash |-> calculate_hash(title), category_id |-> category_id,
             author_id |-> author_id, archived |-> FALSE, poll |-> poll,
             num_direct_posts |-> 1]
        category == GetCategory(CategoryById, category_id)
    IN  IF post = "Panic" THEN Panic
        ELSE \/ Overflows(category.num_direct_threads) /\ Panic
             \/ /\ NextThreadId <= NumThreadIds
                /\ post = "Ok" => NextPostId <= NumPostIds
                /\ PostById' = IF post = "Ok"
                               THEN add_new_post_posts(new_thread_id, text, author_id)
                               ELSE PostById
                /\ NextPostId' = IF post = "Ok" THEN NextPostId + 1 ELSE NextPostId
                /\ ThreadById' = insert(threads1, <<category_id, new_thread_id>>, new_thread)
                /\ NextThreadId' = NextThreadId + 1
                /\ CategoryById' = insert(CategoryById, category_id,
                                          [category EXCEPT !.num_direct_threads = @ + 1])
                /\ Ok(event)
                /\ UNCHANGED <<NextCategoryId, CategoryCounter, CategoryByModerator,
                               DataMigrationDone, now>>

\* The public interface other modules call: no origin, no thread-capacity check.
add_new_thread(category_id, author_id, title, text, poll) ==
    LET r == add_new_thread_check(category_id, poll) IN
    IF r # "Ok" THEN Fail(r)
    ELSE add_new_thread_mutation(category_id, author_id, title, text, poll, <<>>)

create_thread(origin, forum_user_id, category_id, title, text, poll) ==
    LET r0 == ensure_data_migration_done
        r1 == IF r0 # "Ok" THEN r0
              ELSE ensure_can_create_thread(origin, forum_user_id, category_id)
        r == IF r1 # "Ok" THEN r1 ELSE add_new_thread_check(category_id, poll)
    IN  IF r # "Ok" THEN Fail(r)
        ELSE add_new_thread_mutation(category_id, forum_user_id, title, text, poll,
                                     <<<<"ThreadCreated", NextThreadId>>>>)

edit_thread_title(origin, forum_user_id, category_id, thread_id, new_title) ==
    LET r0 == ensure_data_migration_done
        r == IF r0 # "Ok" THEN r0
             ELSE ensure_can_edit_thread_title(origin, category_id, thread_id, forum_user_id)
        thread == GetThread(ThreadById, category_id, thread_id)
        title_hash == calculate_hash(new_title)
    IN  IF r # "Ok" THEN Fail(r)
        ELSE /\ ThreadById' =
                   insert(ThreadById, <<thread.category_id, thread_id>>,
                          [GetThread(ThreadById, thread.category_id, thread_id)
                              EXCEPT !.title_hash = title_hash])
             /\ Ok(<<<<"ThreadTitleUpdated", thread_id>>>>)
             /\ UNCHANGED <<CategoryById, NextCategoryId, CategoryCounter, NextThreadId,
                            PostById, NextPostId, CategoryByModerator, DataMigrationDone, now>>

update_thread_archival_status(origin, actor, category_id, thread_id, new_archival_status) ==
    LET r0 == ensure_data_migration_done
        r1 == IF r0 # "Ok" THEN r0
              ELSE ensure_can_update_thread_archival_status(origin, actor, category_id, thread_id)
        thread == GetThread(ThreadById, category_id, thread_id)
        r == IF r1 # "Ok" THEN r1
             ELSE IF new_archival_status = thread.archived THEN "ThreadNotBeingUpdated"
             ELSE "Ok"
    IN  IF r # "Ok" THEN Fail(r)
        ELSE /\ ThreadById' =
                   insert(ThreadById, <<thread.category_id, thread_id>>,
                          [GetThread(ThreadById, thread.category_id, thread_id)
                              EXCEPT !.archived = new_archival_status])
             /\ Ok(<<<<"ThreadUpdated", thread_id, new_archival_status>>>>)
             /\ UNCHANGED <<CategoryById, NextCategoryId, CategoryCounter, NextThreadId,
                            PostById, NextPostId, CategoryByModerator, DataMigrationDone, now>>

\* delete_thread_inner, called with the category_id field of the thread read.
delete_thread_inner(category_id, thread_id, event) ==
    LET category == GetCategory(CategoryById, category_id) IN
    \/ Underflows(category.num_direct_threads) /\ Panic
    \/ /\ Representable(category.num_direct_threads - 1)
       /\ ThreadById' = remove(ThreadById, <<category_id, thread_id>>)
       /\ PostById' = remove_prefix(PostById, thread_id)
       /\ CategoryById' = insert(CategoryById, category_id,
                                 [category EXCEPT !.num_direct_threads = @ - 1])
       /\ Ok(event)
       /\ UNCHANGED <<NextCategoryId, CategoryCounter, NextThreadId, NextPostId,
                      CategoryByModerator, DataMigrationDone, now>>

delete_thread(origin, actor, category_id, thread_id) ==
    LET r0 == ensure_data_migration_done
        r == IF r0 # "Ok" THEN r0
             ELSE ensure_can_moderate_thread(origin, actor, category_id, thread_id)
        thread == GetThread(ThreadById, category_id, thread_id)
    IN  IF r # "Ok" THEN Fail(r)
        ELSE delete_thread_inner(thread.category_id, thread_id,
                                 <<<<"ThreadDeleted", thread_id>>>>)

moderate_thread(origin, actor, category_id, thread_id, rationale) ==
    LET r0 == ensure_data_migration_done
        r == IF r0 # "Ok" THEN r0
             ELSE ensure_can_moderate_thread(origin, actor, category_id, thread_id)
        thread == GetThread(ThreadById, category_id, thread_id)
    IN  IF r # "Ok" THEN Fail(r)
        ELSE delete_thread_inner(thread.category_id, thread_id,
                                 <<<<"ThreadModerated", thread_id, rationale>>>>)

move_thread_to_category(origin, actor, category_id, thread_id, new_category_id) ==
    LET r0 == ensure_data_migration_done
        r == IF r0 # "Ok" THEN r0
             ELSE ensure_can_move_thread(origin, actor, category_id, thread_id, new_category_id)
        thread == GetThread(ThreadById, category_id, thread_id)
        threads1 == remove(ThreadById, <<thread.category_id, thread_id>>)
        threads2 == insert(threads1, <<new_category_id, thread_id>>, thread)
        source == GetCategory(CategoryById, thread.category_id)
        cats1 == insert(CategoryById, thread.category_id,
                        [source EXCEPT !.num_direct_threads = @ - 1])
        destination == GetCategory(cats1, new_category_id)
        cats2 == insert(cats1, new_category_id,
                        [destination EXCEPT !.num_direct_threads = @ + 1])
    IN  IF r # "Ok" THEN Fail(r)
        ELSE \/ /\ \/ Underflows(source.num_direct_threads)
                   \/ Overflows(destination.num_direct_threads)
                /\ Panic
             \/ /\ \A c \in DOMAIN cats2 : Representable(cats2[c].num_direct_threads)
                /\ ThreadById' = threads2
                /\ CategoryById' = cats2
                /\ Ok(<<<<"ThreadMoved", thread_id, new_category_id>>>>)
                /\ UNCHANGED <<NextCategoryId, CategoryCounter, NextThreadId, PostById,
                               NextPostId, CategoryByModerator, DataMigrationDone, now>>

vote_on_poll(origin, forum_user_id, category_id, thread_id, index) ==
    LET r0 == ensure_data_migration_done
        r1 == IF r0 # "Ok" THEN r0 ELSE ensure_is_forum_user(origin, forum_user_id)
        r2 == IF r1 # "Ok" THEN r1 ELSE ensure_thread_is_mutable(category_id, thread_id)
        thread == GetThread(ThreadById, category_id, thread_id)
        r == IF r2 # "Ok" THEN r2 ELSE ensure_vote_is_valid(thread, index)
        poll == thread.poll[1]
        new_poll_alternatives ==
            [old_index \in 1..Len(poll.poll_alternatives) |->
                IF index = old_index - 1
                THEN [alternative_text_hash |->
                          poll.poll_alternatives[old_index].alternative_text_hash,
                      vote_count |-> poll.poll_alternatives[old_index].vote_count + 1]
                ELSE poll.poll_alternatives[old_index]]
        value == GetThread(ThreadById, thread.category_id, thread_id)
    IN  IF r # "Ok" THEN Fail(r)
        ELSE /\ poll.poll_alternatives[index + 1].vote_count < MaxVotes
             /\ ThreadById' =
                   insert(ThreadById, <<thread.category_id, thread_id>>,
                          [value EXCEPT !.poll =
                              Some([poll EXCEPT !.poll_alternatives = new_poll_alternatives])])
             /\ Ok(<<<<"VoteOnPoll", thread_id, index>>>>)
             /\ UNCHANGED <<CategoryById, NextCategoryId, CategoryCounter, NextThreadId,
                            PostById, NextPostId, CategoryByModerator, DataMigrationDone, now>>

add_new_post_mutation(category_id, thread_id, text, author_id, event) ==
    /\ NextPostId <= NumPostIds
    /\ PostById' = add_new_post_posts(thread_id, text, author_id)
    /\ NextPostId' = NextPostId + 1
    /\ ThreadById' = add_new_post_threads(category_id, thread_id)
    /\ Ok(event)
    /\ UNCHANGED <<CategoryById, NextCategoryId, CategoryCounter, NextThreadId,
                   CategoryByModerator, DataMigrationDone, now>>

\* The public interface other modules call.
add_new_post(category_id, thread_id, text, author_id) ==
    LET r == add_new_post_check(category_id, thread_id) IN
    IF r # "Ok" THEN Fail(r)
    ELSE add_new_post_mutation(category_id, thread_id, text, author_id, <<>>)

\* A variant that takes the post id before it validates.
add_post_id_taken_first(origin, forum_user_id, category_id, thread_id, text) ==
    LET r0 == ensure_data_migration_done
        r1 == IF r0 # "Ok" THEN r0
              ELSE ensure_can_add_post(origin, forum_user_id, category_id, thread_id)
        thread == GetThread(ThreadById, category_id, thread_id)
        r == IF r1 # "Ok" THEN r1 ELSE add_new_post_check(thread.category_id, thread_id)
    IN  IF r # "Ok"
        THEN /\ result' = r
             /\ events' = <<>>
             /\ NextPostId' = NextPostId + 1
             /\ UNCHANGED <<CategoryById, NextCategoryId, CategoryCounter, ThreadById,
                            NextThreadId, PostById, CategoryByModerator, DataMigrationDone,
                            now>>
        ELSE add_new_post_mutation(thread.category_id, thread_id, text, forum_user_id,
                                   <<<<"PostAdded", NextPostId>>>>)

add_post(origin, forum_user_id, category_id, thread_id, text) ==
    LET r0 == ensure_data_migration_done
        r1 == IF r0 # "Ok" THEN r0
              ELSE ensure_can_add_post(origin, forum_user_id, category_id, thread_id)
        thread == GetThread(ThreadById, category_id, thread_id)
        r == IF r1 # "Ok" THEN r1 ELSE add_new_post_check(thread.category_id, thread_id)
    IN  IF r # "Ok" THEN Fail(r)
        ELSE add_new_post_mutation(thread.category_id, thread_id, text, forum_user_id,
                                   <<<<"PostAdded", NextPostId>>>>)

\* The same call with the membership of the caller looked at before the
\* migration flag.
react_post_member_first(origin, forum_user_id, category_id, thread_id, post_id, react) ==
    LET r0 == ensure_is_forum_user(origin, forum_user_id)
        r1 == IF r0 # "Ok" THEN r0 ELSE ensure_data_migration_done
        r == IF r1 # "Ok" THEN r1 ELSE ensure_post_is_mutable(category_id, thread_id, post_id)
    IN  IF r # "Ok" THEN Fail(r)
        ELSE /\ Ok(<<<<"PostReacted", forum_user_id, post_id, react>>>>)
             /\ UNCHANGED <<store, now>>

react_post(origin, forum_user_id, category_id, thread_id, post_id, react) ==
    LET r0 == ensure_data_migration_done
        r1 == IF r0 # "Ok" THEN r0 ELSE ensure_is_forum_user(origin, forum_user_id)
        r == IF r1 # "Ok" THEN r1 ELSE ensure_post_is_mutable(category_id, thread_id, post_id)
    IN  IF r # "Ok" THEN Fail(r)
        ELSE /\ Ok(<<<<"PostReacted", forum_user_id, post_id, react>>>>)
             /\ UNCHANGED <<store, now>>

edit_post_text(origin, forum_user_id, category_id, thread_id, post_id, new_text) ==
    LET r0 == ensure_data_migration_done
        r1 == IF r0 # "Ok" THEN r0 ELSE ensure_is_forum_user(origin, forum_user_id)
        r2 == IF r1 # "Ok" THEN r1 ELSE ensure_post_is_mutable(category_id, thread_id, post_id)
        post == get(PostById, <<thread_id, post_id>>, DefaultPost)
        r == IF r2 # "Ok" THEN r2
             ELSE IF post.author_id # forum_user_id THEN "AccountDoesNotMatchPostAuthor"
             ELSE "Ok"
        text_hash == calculate_hash(new_text)
    IN  IF r # "Ok" THEN Fail(r)
        ELSE /\ PostById' =
                   insert(PostById, <<post.thread_id, post_id>>,
                          [get(PostById, <<post.thread_id, post_id>>, DefaultPost)
                              EXCEPT !.text_hash = text_hash])
             /\ Ok(<<<<"PostTextUpdated", post_id>>>>)
             /\ UNCHANGED <<CategoryById, NextCategoryId, CategoryCounter, ThreadById,
                            NextThreadId, NextPostId, CategoryByModerator,
                            DataMigrationDone, now>>

delete_post_inner(category_id, thread_id, post_id, event) ==
    LET thread == GetThread(ThreadById, category_id, thread_id) IN
    \/ Underflows(thread.num_direct_posts) /\ Panic
    \/ /\ Representable(thread.num_direct_posts - 1)
       /\ PostById' = remove(PostById, <<thread_id, post_id>>)
       /\ ThreadById' = insert(ThreadById, <<category_id, thread_id>>,
                               [thread EXCEPT !.num_direct_posts = @ - 1])
       /\ Ok(event)
       /\ UNCHANGED <<CategoryById, NextCategoryId, CategoryCounter, NextThreadId,
                      NextPostId, CategoryByModerator, DataMigrationDone, now>>

moderate_post(origin, actor, category_id, thread_id, post_id, rationale) ==
    LET r0 == ensure_data_migration_done
        r == IF r0 # "Ok" THEN r0
             ELSE ensure_can_moderate_post(origin, actor, category_id, thread_id, post_id)
    IN  IF r # "Ok" THEN Fail(r)
        ELSE delete_post_inner(category_id, thread_id, post_id,
                               <<<<"PostModerated", post_id, rationale>>>>)

set_stickied_threads(origin, actor, category_id, stickied_ids) ==
    LET r0 == ensure_data_migration_done
        r == IF r0 # "Ok" THEN r0
             ELSE ensure_can_set_stickied_threads(origin, actor, category_id, stickied_ids)
        category == GetCategory(CategoryById, category_id)
    IN  IF r # "Ok" THEN Fail(r)
        ELSE /\ CategoryById' = insert(CategoryById, category_id,
                                       [category EXCEPT !.sticky_thread_ids = stickied_ids])
             /\ Ok(<<<<"CategoryStickyThreadUpdate", category_id, stickied_ids>>>>)
             /\ UNCHANGED <<NextCategoryId, CategoryCounter, ThreadById, NextThreadId,
                            PostById, NextPostId, CategoryByModerator, DataMigrationDone, now>>

\* pallet_timestamp: the clock never goes back.
Tick ==
    /\ now < MaxTime
    /\ now' = now + 1
    /\ UNCHANGED <<store, result, events, call>>

(* ---- inputs ---- *)
Times == 0..MaxTime
\* The categories that calls address: all ids but the last.
CategoryInputs == 1..(NumCategoryIds - 1)

MakePoll(len, end_time, vote_count) ==
    [description_hash |-> calculate_hash(1),
     end_time |-> end_time,
     poll_alternatives |->
         [i \in 1..len |-> [alternative_text_hash |-> calculate_hash(i),
                            vote_count |-> vote_count]]]

PollLengths == (PollItemsMin - 1)..(PollItemsMin + PollItemsMaxMinDiff + 1)
AllPolls ==
    {None} \cup {Some(MakePoll(len, e, v)) : len \in PollLengths, e \in Times, v \in 0..MaxVotes}
VoteIndexes == 0..(PollItemsMin + PollItemsMaxMinDiff)

(* ---- one call of each operation, its arguments drawn from the sets of D ---- *)
\* The history of the call: the origin and the category argument of a call that
\* succeeded.
Called(origin, category_id) ==
    call' = IF result' = "Ok" THEN <<origin, category_id>> ELSE <<>>

CallUpdateCategoryMembershipOfModerator(D) ==
    \E origin \in D.accounts, m \in D.moderators, c \in D.categories, v \in BOOLEAN :
        /\ update_category_membership_of_moderator(origin, m, c, v)
        /\ Called(Some(origin), c)

CallCreateCategory(D) ==
    \E origin \in D.accounts, parent \in D.parents :
        /\ create_category(origin, parent, 1, 1)
        /\ Called(Some(origin), NextCategoryId)

CallUpdateCategoryArchivalStatus(D) ==
    \E origin \in D.accounts, actor \in D.actors, c \in D.categories, v \in BOOLEAN :
        /\ update_category_archival_status(origin, actor, c, v)
        /\ Called(Some(origin), c)

CallDeleteCategory(D) ==
    \E origin \in D.accounts, actor \in D.actors, c \in D.categories :
        /\ delete_category(origin, actor, c)
        /\ Called(Some(origin), c)

CallCreateThread(D) ==
    \E origin \in D.accounts, u \in D.users, c \in D.categories, poll \in D.polls :
        /\ create_thread(origin, u, c, 1, 1, poll)
        /\ Called(Some(origin), c)

CallEditThreadTitle(D) ==
    \E origin \in D.accounts, u \in D.users, c \in D.categories, t \in D.threads :
        /\ edit_thread_title(origin, u, c, t, 2)
        /\ Called(Some(origin), c)

CallUpdateThreadArchivalStatus(D) ==
    \E origin \in D.accounts, actor \in D.actors, c \in D.categories, t \in D.threads,
       v \in BOOLEAN :
        /\ update_thread_archival_status(origin, actor, c, t, v)
        /\ Called(Some(origin), c)

CallDeleteThread(D) ==
    \E origin \in D.accounts, actor \in D.actors, c \in D.categories, t \in D.threads :
        /\ delete_thread(origin, actor, c, t)
        /\ Called(Some(origin), c)

CallMoveThreadToCategory(D) ==
    \E origin \in D.accounts, actor \in D.actors, c \in D.categories, t \in D.threads,
       d \in D.categories :
        /\ move_thread_to_category(origin, actor, c, t, d)
        /\ Called(Some(origin), c)

CallVoteOnPoll(D) ==
    \E origin \in D.accounts, u \in D.users, c \in D.categories, t \in D.threads,
       index \in D.indexes :
        /\ vote_on_poll(origin, u, c, t, index)
        /\ Called(Some(origin), c)

CallModerateThread(D) ==
    \E origin \in D.accounts, actor \in D.actors, c \in D.categories, t \in D.threads :
        /\ moderate_thread(origin, actor, c, t, 1)
        /\ Called(Some(origin), c)

CallAddPost(D) ==
    \E origin \in D.accounts, u \in D.users, c \in D.categories, t \in D.threads :
        /\ add_post(origin, u, c, t, 1)
        /\ Called(Some(origin), c)

CallReactPost(D) ==
    \E origin \in D.accounts, u \in D.users, c \in D.categories, t \in D.threads,
       p \in D.posts :
        /\ react_post(origin, u, c, t, p, 1)
        /\ Called(Some(origin), c)

CallEditPostText(D) ==
    \E origin \in D.accounts, u \in D.users, c \in D.categories, t \in D.threads,
       p \in D.posts :
        /\ edit_post_text(origin, u, c, t, p, 2)
        /\ Called(Some(origin), c)

CallModeratePost(D) ==
    \E origin \in D.accounts, actor \in D.actors, c \in D.categories, t \in D.threads,
       p \in D.posts :
        /\ moderate_post(origin, actor, c, t, p, 1)
        /\ Called(Some(origin), c)

CallSetStickiedThreads(D) ==
    \E origin \in D.accounts, actor \in D.actors, c \in D.categories, ids \in D.sticky :
        /\ set_stickied_threads(origin, actor, c, ids)
        /\ Called(Some(origin), c)

CallAddNewThread(D) ==
    \E u \in D.users, c \in D.categories, poll \in D.polls :
        /\ add_new_thread(c, u, 1, 1, poll)
        /\ Called(None, c)

CallAddNewPost(D) ==
    \E u \in D.users, c \in D.categories, t \in D.threads :
        /\ add_new_post(c, t, 1, u)
        /\ Called(None, c)

\* The arguments of the calls: the Lead's account and the account of member 1, who
\* is also moderator 1; a poll that is valid, one with too few alternatives, none.
AllInputs ==
    [accounts |-> {LeadAccount, 1}, actors |-> Actors, moderators |-> ModeratorIds,
     users |-> {1}, categories |-> CategoryInputs,
     parents |-> {None, Some(1)},
     threads |-> ThreadIds, posts |-> PostIds,
     polls |-> {None, Some(MakePoll(PollItemsMin, MaxTime, 0)),
                Some(MakePoll(PollItemsMin - 1, MaxTime, 0))},
     indexes |-> {0, PollItemsMin},
     sticky |-> {<<>>} \cup {<<t>> : t \in ThreadIds}]

\* One more call, of at most MaxCalls.
Counted ==
    /\ ncalls < MaxCalls
    /\ ncalls' = ncalls + 1
    /\ UNCHANGED blog

Next ==
    \/ CallUpdateCategoryMembershipOfModerator(AllInputs) /\ Counted
    \/ CallCreateCategory(AllInputs) /\ Counted
    \/ CallUpdateCategoryArchivalStatus(AllInputs) /\ Counted
    \/ CallDeleteCategory(AllInputs) /\ Counted
    \/ CallCreateThread(AllInputs) /\ Counted
    \/ CallEditThreadTitle(AllInputs) /\ Counted
    \/ CallUpdateThreadArchivalStatus(AllInputs) /\ Counted
    \/ CallDeleteThread(AllInputs) /\ Counted
    \/ CallMoveThreadToCategory(AllInputs) /\ Counted
    \/ CallVoteOnPoll(AllInputs) /\ Counted
    \/ CallModerateThread(AllInputs) /\ Counted
    \/ CallAddPost(AllInputs) /\ Counted
    \/ CallReactPost(AllInputs) /\ Counted
    \/ CallEditPostText(AllInputs) /\ Counted
    \/ CallModeratePost(AllInputs) /\ Counted
    \/ CallSetStickiedThreads(AllInputs) /\ Counted
    \/ CallAddNewThread(AllInputs) /\ Counted
    \/ CallAddNewPost(AllInputs) /\ Counted
    \/ Tick /\ Counted

Spec == Init /\ [][Next]_vars

(* ---- threads and their categories: the Lead and one member, root categories ---- *)
ThreadInputs ==
    [accounts |-> {LeadAccount, 1}, actors |-> {Lead}, users |-> {1},
     categories |-> CategoryInputs, parents |-> {None},
     threads |-> ThreadIds, posts |-> PostIds, polls |-> {None}]

NextThreads ==
    \/ CallCreateCategory(ThreadInputs) /\ UNCHANGED <<ncalls, blog>>
    \/ CallDeleteCategory(ThreadInputs) /\ UNCHANGED <<ncalls, blog>>
    \/ CallCreateThread(ThreadInputs) /\ UNCHANGED <<ncalls, blog>>
    \/ CallEditThreadTitle(ThreadInputs) /\ UNCHANGED <<ncalls, blog>>
    \/ CallDeleteThread(ThreadInputs) /\ UNCHANGED <<ncalls, blog>>
    \/ CallModerateThread(ThreadInputs) /\ UNCHANGED <<ncalls, blog>>
    \/ CallMoveThreadToCategory(ThreadInputs) /\ UNCHANGED <<ncalls, blog>>
    \/ CallAddNewThread(ThreadInputs) /\ UNCHANGED <<ncalls, blog>>

SpecThreads == Init /\ [][NextThreads]_vars

(* ---- moderation and archival in a two-level tree, runs of at most MaxCalls calls ---- *)
\* A genesis configuration holding root category 1 and its subcategory 2.
InitTree ==
    /\ CategoryById = <<[DefaultCategory EXCEPT !.title_hash = calculate_hash(1),
                                                !.description_hash = calculate_hash(1),
                                                !.num_direct_subcategories = 1],
                        [DefaultCategory EXCEPT !.title_hash = calculate_hash(1),
                                                !.description_hash = calculate_hash(1),
                                                !.parent_category_id = Some(1)]>>
    /\ NextCategoryId = 3
    /\ CategoryCounter = 2
    /\ ThreadById = <<>>
    /\ NextThreadId = 1
    /\ PostById = <<>>
    /\ NextPostId = 1
    /\ CategoryByModerator = {}
    /\ DataMigrationDone = TRUE
    /\ now = 0
    /\ result = "Init"
    /\ events = <<>>
    /\ call = <<>>
    /\ ncalls = 0
    /\ BlogGenesis

ModerationInputs ==
    [accounts |-> {LeadAccount, 1}, actors |-> Actors, moderators |-> ModeratorIds,
     users |-> {1}, categories |-> CategoryInputs,
     threads |-> ThreadIds, posts |-> PostIds, polls |-> {None},
     sticky |-> {<<>>} \cup {<<t>> : t \in ThreadIds}]

NextModeration ==
    \/ CallUpdateCategoryMembershipOfModerator(ModerationInputs) /\ Counted
    \/ CallUpdateCategoryArchivalStatus(ModerationInputs) /\ Counted
    \/ CallDeleteCategory(ModerationInputs) /\ Counted
    \/ CallCreateThread(ModerationInputs) /\ Counted
    \/ CallEditThreadTitle(ModerationInputs) /\ Counted
    \/ CallUpdateThreadArchivalStatus(ModerationInputs) /\ Counted
    \/ CallDeleteThread(ModerationInputs) /\ Counted
    \/ CallModerateThread(ModerationInputs) /\ Counted
    \/ CallMoveThreadToCategory(ModerationInputs) /\ Counted
    \/ CallAddPost(ModerationInputs) /\ Counted
    \/ CallEditPostText(ModerationInputs) /\ Counted
    \/ CallModeratePost(ModerationInputs) /\ Counted
    \/ CallSetStickiedThreads(ModerationInputs) /\ Counted

SpecModeration == InitTree /\ [][NextModeration]_vars

\* The category tree alone: every category id, every parent, no threads.
TreeInputs ==
    [accounts |-> {LeadAccount, 1}, actors |-> {Lead},
     categories |-> 1..NumCategoryIds,
     parents |-> {None} \cup {Some(p) : p \in 1..NumCategoryIds},
     sticky |-> {<<>>}]

NextTree ==
    \/ CallCreateCategory(TreeInputs) /\ UNCHANGED <<ncalls, blog>>
    \/ CallUpdateCategoryArchivalStatus(TreeInputs) /\ UNCHANGED <<ncalls, blog>>
    \/ CallDeleteCategory(TreeInputs) /\ UNCHANGED <<ncalls, blog>>
    \/ CallSetStickiedThreads(TreeInputs) /\ UNCHANGED <<ncalls, blog>>

SpecTree == Init /\ [][NextTree]_vars

\* A genesis configuration with two root categories, the second one full: it
\* holds thread 0, stored before the first thread id that the calls hand out.
InitFull ==
    /\ CategoryById = <<[DefaultCategory EXCEPT !.title_hash = calculate_hash(1),
                                                !.description_hash = calculate_hash(1)],
                        [DefaultCategory EXCEPT !.title_hash = calculate_hash(1),
                                                !.description_hash = calculate_hash(1),
                                                !.num_direct_threads = 1]>>
    /\ NextCategoryId = 3
    /\ CategoryCounter = 2
    /\ ThreadById = insert(<<>>, <<2, 0>>,
                           [DefaultThread EXCEPT !.title_hash = calculate_hash(1),
                                                 !.category_id = 2,
                                                 !.author_id = 1])
    /\ NextThreadId = 1
    /\ PostById = <<>>
    /\ NextPostId = 1
    /\ CategoryByModerator = {}
    /\ DataMigrationDone = TRUE
    /\ now = 0
    /\ result = "Init"
    /\ events = <<>>
    /\ call = <<>>
    /\ ncalls = 0
    /\ BlogGenesis

FullInputs ==
    [accounts |-> {LeadAccount, 1}, actors |-> {Lead}, users |-> {1},
     categories |-> CategoryInputs, threads |-> ThreadIds, posts |-> PostIds,
     polls |-> {None}]

NextFull ==
    \/ CallCreateThread(FullInputs) /\ UNCHANGED <<ncalls, blog>>
    \/ CallEditThreadTitle(FullInputs) /\ UNCHANGED <<ncalls, blog>>
    \/ CallDeleteThread(FullInputs) /\ UNCHANGED <<ncalls, blog>>
    \/ CallMoveThreadToCategory(FullInputs) /\ UNCHANGED <<ncalls, blog>>
    \/ CallAddPost(FullInputs) /\ UNCHANGED <<ncalls, blog>>
    \/ CallModeratePost(FullInputs) /\ UNCHANGED <<ncalls, blog>>

SpecFull == InitFull /\ [][NextFull]_vars

\* Polls: the member creates threads with every shape of poll in the genesis
\* tree of InitTree and votes on every index, the Lead moves the threads, and the
\* clock advances.
PollInputs ==
    [accounts |-> {1}, actors |-> {Lead}, users |-> {1},
     categories |-> CategoryInputs, threads |-> ThreadIds,
     polls |-> {None} \cup {Some(MakePoll(len, e, 0)) :
                                len \in {PollItemsMin - 1, PollItemsMin,
                                         PollItemsMin + PollItemsMaxMinDiff + 1},
                                e \in Times},
     indexes |-> 0..PollItemsMin]

LeadInputs == [PollInputs EXCEPT !.accounts = {LeadAccount}]

NextPolls ==
    \/ CallCreateThread(PollInputs) /\ UNCHANGED <<ncalls, blog>>
    \/ CallMoveThreadToCategory(LeadInputs) /\ UNCHANGED <<ncalls, blog>>
    \/ CallVoteOnPoll(PollInputs) /\ UNCHANGED <<ncalls, blog>>
    \/ Tick /\ UNCHANGED <<ncalls, blog>>

SpecPolls == InitTree /\ [][NextPolls]_vars

\* The lengths of a poll: too short, shortest, too long, and the shortest
\* length plus the range of u16.
LengthInputs ==
    [accounts |-> {1}, actors |-> {Lead}, users |-> {1},
     categories |-> CategoryInputs, threads |-> ThreadIds,
     polls |-> {None} \cup {Some(MakePoll(len, e, 0)) :
                                len \in {PollItemsMin - 1, PollItemsMin,
                                         PollItemsMin + PollItemsMaxMinDiff + 1},
                                e \in Times}
                     \cup {Some(MakePoll(U16Range + PollItemsMin, MaxTime, 0))},
     indexes |-> {0}]

NextLengths ==
    \/ CallCreateThread(LengthInputs) /\ UNCHANGED <<ncalls, blog>>
    \/ CallMoveThreadToCategory([LengthInputs EXCEPT !.accounts = {LeadAccount}])
          /\ UNCHANGED <<ncalls, blog>>
    \/ CallDeleteThread([LengthInputs EXCEPT !.accounts = {LeadAccount}])
          /\ UNCHANGED <<ncalls, blog>>
    \/ Tick /\ UNCHANGED <<ncalls, blog>>

SpecLengths == InitTree /\ [][NextLengths]_vars

\* Authors: two members create threads and posts in the genesis tree and edit
\* their own and each other's; the Lead moves threads.
AuthorInputs ==
    [accounts |-> {1, 2}, actors |-> {Lead}, users |-> {1, 2},
     categories |-> CategoryInputs, threads |-> ThreadIds, posts |-> PostIds,
     polls |-> {None}]

AuthorLeadInputs == [AuthorInputs EXCEPT !.accounts = {LeadAccount}]

NextAuthors ==
    \/ CallCreateThread(AuthorInputs) /\ UNCHANGED <<ncalls, blog>>
    \/ CallAddPost(AuthorInputs) /\ UNCHANGED <<ncalls, blog>>
    \/ CallEditThreadTitle(AuthorInputs) /\ UNCHANGED <<ncalls, blog>>
    \/ CallEditPostText(AuthorInputs) /\ UNCHANGED <<ncalls, blog>>
    \/ CallMoveThreadToCategory(AuthorLeadInputs) /\ UNCHANGED <<ncalls, blog>>

SpecAuthors == InitTree /\ [][NextAuthors]_vars

\* Moderators: a genesis configuration of the tree in which moderator 0 is
\* assigned to root category 1, one below the capacity of a category; the Lead
\* assigns and removes the other moderators and archives categories.
InitMembers ==
    /\ CategoryById = <<[DefaultCategory EXCEPT !.title_hash = calculate_hash(1),
                                                !.description_hash = calculate_hash(1),
                                                !.num_direct_subcategories = 1,
                                                !.num_direct_moderators =
                                                    MaxModeratorsForCategory - 1],
                        [DefaultCategory EXCEPT !.title_hash = calculate_hash(1),
                                                !.description_hash = calculate_hash(1),
                                                !.parent_category_id = Some(1)]>>
    /\ NextCategoryId = 3
    /\ CategoryCounter = 2
    /\ ThreadById = <<>>
    /\ NextThreadId = 1
    /\ PostById = <<>>
    /\ NextPostId = 1
    /\ CategoryByModerator = {<<1, m>> : m \in 0..(MaxModeratorsForCategory - 2)}
    /\ DataMigrationDone = TRUE
    /\ now = 0
    /\ result = "Init"
    /\ events = <<>>
    /\ call = <<>>
    /\ ncalls = 0
    /\ BlogGenesis

MemberInputs ==
    [accounts |-> {LeadAccount}, actors |-> {Lead}, moderators |-> ModeratorIds,
     categories |-> CategoryInputs, parents |-> {None, Some(1)}]

NextMembers ==
    \/ CallUpdateCategoryMembershipOfModerator(MemberInputs) /\ UNCHANGED <<ncalls, blog>>
    \/ CallUpdateCategoryArchivalStatus(MemberInputs) /\ UNCHANGED <<ncalls, blog>>
    \/ CallCreateCategory(MemberInputs) /\ UNCHANGED <<ncalls, blog>>

SpecMembers == InitMembers /\ [][NextMembers]_vars

\* Votes: the member creates threads whose polls carry every vote count a
\* caller can write into them, and votes.
VoteInputs ==
    [accounts |-> {1}, actors |-> {Lead}, users |-> {1},
     categories |-> CategoryInputs, threads |-> ThreadIds,
     polls |-> AllPolls, indexes |-> VoteIndexes]

NextVotes ==
    \/ CallCreateThread(VoteInputs) /\ UNCHANGED <<ncalls, blog>>
    \/ CallVoteOnPoll(VoteInputs) /\ UNCHANGED <<ncalls, blog>>
    \/ Tick /\ UNCHANGED <<ncalls, blog>>

SpecVotes == InitTree /\ [][NextVotes]_vars

(* ==== the blog module (runtime-modules/blog/src/lib.rs) ==== *)
\* The limits of the runtime's configuration.
PostsMaxNumber == 1
RepliesMaxNumber == 2
REACTIONS_MAX_NUMBER == 5

\* frame_system::RawOrigin: the root origin and the signed origin of an account.
Root == [kind |-> "Root", id |-> 0]
Signed(account_id) == [kind |-> "Signed", id |-> account_id]

\* ParentId: a reply answers the post or another reply.
ParentPost(post_id) == [kind |-> "Post", id |-> post_id]
ParentReply(reply_id) == [kind |-> "Reply", id |-> reply_id]

\* T::Hashing::hash, injective on the texts of the model.
Hashing_hash(text) == 200 + text

DefaultBlogPost == [locked |-> FALSE, title_hash |-> 0, body_hash |-> 0, replies_count |-> 0]
DefaultReply == [text_hash |-> 0, owner |-> 0, parent_id |-> ParentPost(0)]

\* Post::new
NewBlogPost(title, body) ==
    [locked |-> FALSE, title_hash |-> Hashing_hash(title), body_hash |-> Hashing_hash(body),
     replies_count |-> 0]

\* Post::update
UpdateBlogPost(post, new_title, new_body) ==
    [post EXCEPT !.title_hash = IF new_title # None THEN Hashing_hash(new_title[1]) ELSE @,
                 !.body_hash = IF new_body # None THEN Hashing_hash(new_body[1]) ELSE @]

\* Reply::new
NewReply(text, owner, parent_id) ==
    [text_hash |-> Hashing_hash(text), owner |-> owner, parent_id |-> parent_id]

\* An error return of a call of the blog.
BlogFail(err) ==
    /\ result' = err
    /\ events' = <<>>
    /\ UNCHANGED blog

\* MemberOriginValidator::is_member_controller_account: account n controls
\* participant n.
is_member_controller_account(participant_id, account_id) == account_id = participant_id

ensure_blog_ownership(origin) ==
    IF origin.kind = "Root" THEN "Ok" ELSE "BlogOwnershipError"

ensure_valid_participant(origin, participant_id) ==
    IF origin.kind # "Signed" THEN "BadOrigin"
    ELSE IF is_member_controller_account(participant_id, origin.id) THEN "Ok"
    ELSE "MembershipError"

blog_ensure_post_exists(post_id) ==
    IF contains_key(BlogPostById, post_id) THEN "Ok" ELSE "PostNotFound"

ensure_reply_exists(post_id, reply_id) ==
    IF contains_key(ReplyById, <<post_id, reply_id>>) THEN "Ok" ELSE "ReplyNotFound"

ensure_reply_ownership(reply, reply_owner) ==
    IF reply.owner = reply_owner THEN "Ok" ELSE "ReplyOwnershipError"

\* The same check with the lock ignored.
ensure_post_unlocked_always(post) == "Ok"

ensure_post_unlocked(post) ==
    IF post.locked THEN "PostLockedError" ELSE "Ok"

ensure_posts_limit_not_reached ==
    IF PostCount < PostsMaxNumber THEN "Ok" ELSE "PostLimitReached"

ensure_replies_limit_not_reached(post) ==
    IF post.replies_count < RepliesMaxNumber THEN "Ok" ELSE "RepliesLimitReached"

ensure_reaction_index_is_valid(index) ==
    IF index < REACTIONS_MAX_NUMBER THEN "Ok" ELSE "InvalidReactionIndex"

create_post(origin, title, body) ==
    LET r0 == ensure_blog_ownership(origin)
        r == IF r0 # "Ok" THEN r0 ELSE ensure_posts_limit_not_reached
        posts_count == PostCount
    IN  IF r # "Ok" THEN BlogFail(r)
        ELSE /\ PostCount' = PostCount + 1
             /\ BlogPostById' = insert(BlogPostById, posts_count, NewBlogPost(title, body))
             /\ UNCHANGED ReplyById
             /\ Ok(<<<<"PostCreated", posts_count, title, body>>>>)

lock_post(origin, post_id) ==
    LET r0 == ensure_blog_ownership(origin)
        r == IF r0 # "Ok" THEN r0 ELSE blog_ensure_post_exists(post_id)
    IN  IF r # "Ok" THEN BlogFail(r)
        ELSE /\ BlogPostById' = insert(BlogPostById, post_id,
                                       [get(BlogPostById, post_id, DefaultBlogPost)
                                           EXCEPT !.locked = TRUE])
             /\ UNCHANGED <<PostCount, ReplyById>>
             /\ Ok(<<<<"PostLocked", post_id>>>>)

unlock_post(origin, post_id) ==
    LET r0 == ensure_blog_ownership(origin)
        r == IF r0 # "Ok" THEN r0 ELSE blog_ensure_post_exists(post_id)
    IN  IF r # "Ok" THEN BlogFail(r)
        ELSE /\ BlogPostById' = insert(BlogPostById, post_id,
                                       [get(BlogPostById, post_id, DefaultBlogPost)
                                           EXCEPT !.locked = FALSE])
             /\ UNCHANGED <<PostCount, ReplyById>>
             /\ Ok(<<<<"PostUnlocked", post_id>>>>)

edit_post(origin, post_id, new_title, new_body) ==
    LET r0 == ensure_blog_ownership(origin)
        r1 == IF r0 # "Ok" THEN r0 ELSE blog_ensure_post_exists(post_id)
        post == get(BlogPostById, post_id, DefaultBlogPost)
        r == IF r1 # "Ok" THEN r1 ELSE ensure_post_unlocked(post)
    IN  IF r # "Ok" THEN BlogFail(r)
        ELSE /\ BlogPostById' = insert(BlogPostById, post_id,
                                       UpdateBlogPost(post, new_title, new_body))
             /\ UNCHANGED <<PostCount, ReplyById>>
             /\ Ok(<<<<"PostEdited", post_id, new_title, new_body>>>>)

create_reply(origin, participant_id, post_id, reply_id, text) ==
    LET r0 == ensure_valid_participant(origin, participant_id)
        r1 == IF r0 # "Ok" THEN r0 ELSE blog_ensure_post_exists(post_id)
        post == get(BlogPostById, post_id, DefaultBlogPost)
        r2 == IF r1 # "Ok" THEN r1 ELSE ensure_post_unlocked(post)
        r3 == IF r2 # "Ok" THEN r2 ELSE ensure_replies_limit_not_reached(post)
        r == IF r3 # "Ok" \/ reply_id = None THEN r3
             ELSE ensure_reply_exists(post_id, reply_id[1])
        reply == IF reply_id # None
                 THEN NewReply(text, participant_id, ParentReply(reply_id[1]))
                 ELSE NewReply(text, participant_id, ParentPost(post_id))
        post_replies_count == post.replies_count
    IN  IF r # "Ok" THEN BlogFail(r)
        ELSE /\ ReplyById' = insert(ReplyById, <<post_id, post_replies_count>>, reply)
             /\ BlogPostById' = insert(BlogPostById, post_id,
                                       [post EXCEPT !.replies_count = @ + 1])
             /\ UNCHANGED PostCount
             /\ IF reply_id # None
                THEN Ok(<<<<"DirectReplyCreated", participant_id, post_id, reply_id[1],
                           post_replies_count, text>>>>)
                ELSE Ok(<<<<"ReplyCreated", participant_id, post_id, post_replies_count,
                           text>>>>)

edit_reply(origin, participant_id, post_id, reply_id, new_text) ==
    LET r0 == ensure_valid_participant(origin, participant_id)
        r1 == IF r0 # "Ok" THEN r0 ELSE blog_ensure_post_exists(post_id)
        post == get(BlogPostById, post_id, DefaultBlogPost)
        r2 == IF r1 # "Ok" THEN r1 ELSE ensure_post_unlocked(post)
        r3 == IF r2 # "Ok" THEN r2 ELSE ensure_reply_exists(post_id, reply_id)
        reply == get(ReplyById, <<post_id, reply_id>>, DefaultReply)
        r == IF r3 # "Ok" THEN r3 ELSE ensure_reply_ownership(reply, participant_id)
    IN  IF r # "Ok" THEN BlogFail(r)
        ELSE /\ ReplyById' = insert(ReplyById, <<post_id, reply_id>>,
                                    [reply EXCEPT !.text_hash = Hashing_hash(new_text)])
             /\ UNCHANGED <<PostCount, BlogPostById>>
             /\ Ok(<<<<"ReplyEdited", participant_id, post_id, reply_id, new_text>>>>)

\* react writes no storage item: a reaction is only an event.
react(origin, participant_id, index, post_id, reply_id) ==
    LET r0 == ensure_valid_participant(origin, participant_id)
        r1 == IF r0 # "Ok" THEN r0 ELSE ensure_reaction_index_is_valid(index)
        r2 == IF r1 # "Ok" THEN r1 ELSE blog_ensure_post_exists(post_id)
        post == get(BlogPostById, post_id, DefaultBlogPost)
        r3 == IF r2 # "Ok" THEN r2 ELSE ensure_post_unlocked(post)
        r == IF r3 # "Ok" \/ reply_id = None THEN r3
             ELSE ensure_reply_exists(post_id, reply_id[1])
    IN  IF r # "Ok" THEN BlogFail(r)
        ELSE /\ UNCHANGED blog
             /\ IF reply_id # None
                THEN Ok(<<<<"ReplyReactionsUpdated", participant_id, post_id, reply_id[1],
                           index>>>>)
                ELSE Ok(<<<<"PostReactionsUpdated", participant_id, post_id, index>>>>)

\* The arguments of the calls of the blog: the root origin and the accounts of
\* participant 1 and of another member, the post ids the limit allows and one
\* more, the reply ids the limit allows, a reaction index in range and the
\* first one out of range.
BlogOrigins == {Root, Signed(1), Signed(2)}
BlogPostInputs == 0..PostsMaxNumber
BlogReplyInputs == 0..(RepliesMaxNumber - 1)
ReactionIndexes == {0, REACTIONS_MAX_NUMBER}

\* A call of the blog leaves the forum's storage, the clock and the history alone.
ForumUnchanged == UNCHANGED <<store, now, call, ncalls>>

CallBlogCreatePost ==
    \E origin \in BlogOrigins : create_post(origin, 1, 1)

CallLockPost ==
    \E origin \in BlogOrigins, p \in BlogPostInputs : lock_post(origin, p)

CallUnlockPost ==
    \E origin \in BlogOrigins, p \in BlogPostInputs : unlock_post(origin, p)

CallEditPost ==
    \E origin \in BlogOrigins, p \in BlogPostInputs,
       new_title \in {None, Some(2)}, new_body \in {None, Some(2)} :
        edit_post(origin, p, new_title, new_body)

CallCreateReply ==
    \E origin \in BlogOrigins, u \in {1}, p \in BlogPostInputs,
       r \in {None} \cup {Some(x) : x \in BlogReplyInputs} :
        create_reply(origin, u, p, r, 1)

CallEditReply ==
    \E origin \in BlogOrigins, u \in {1}, p \in BlogPostInputs, r \in BlogReplyInputs :
        edit_reply(origin, u, p, r, 2)

CallReact ==
    \E origin \in BlogOrigins, u \in {1}, i \in ReactionIndexes, p \in BlogPostInputs,
       r \in {None} \cup {Some(x) : x \in BlogReplyInputs} :
        react(origin, u, i, p, r)

NextBlog ==
    \/ CallBlogCreatePost /\ ForumUnchanged
    \/ CallLockPost /\ ForumUnchanged
    \/ CallUnlockPost /\ ForumUnchanged
    \/ CallEditPost /\ ForumUnchanged
    \/ CallCreateReply /\ ForumUnchanged
    \/ CallEditReply /\ ForumUnchanged
    \/ CallReact /\ ForumUnchanged

SpecBlog == InitTree /\ [][NextBlog]_vars

(* ---- properties of threads and their categories ---- *)
ThreadsIn(threads, category_id) == {k \in DOMAIN threads : k[1] = category_id}
PostsOf(posts, thread_id) == {k \in DOMAIN posts : k[1] = thread_id}

\* C1: for every stored category C, C.num_direct_threads equals the number of
\* threads stored under category key C in ThreadById.
C1_ThreadCounterMatches ==
    \A c \in DOMAIN CategoryById :
        CategoryById[c].num_direct_threads = Cardinality(ThreadsIn(ThreadById, c))

\* C2: after a successful create_thread (or add_new_thread) exactly one post is
\* stored under the new thread's id, it is authored by the thread's author, and
\* NextPostId has advanced by one.
C2_FirstPostStored ==
    [][\A u \in ForumUserIds, c \in CategoryIds :
          /\ \/ \E origin \in Accounts : create_thread(origin, u, c, 1, 1, None)
             \/ add_new_thread(c, u, 1, 1, None)
          /\ result' = "Ok"
          => /\ Cardinality(PostsOf(PostById', NextThreadId)) = 1
             /\ \A k \in PostsOf(PostById', NextThreadId) : PostById'[k].author_id = u
             /\ NextPostId' = NextPostId + 1]_vars

\* C3: after a successful delete_thread or moderate_thread addressed as (C, T), no
\* thread with id T is stored under any category, no post is stored under T, the
\* num_direct_threads of C, which held T, has dropped by one and the counter of
\* every other category is unchanged.
C3_ThreadGoneAfterDelete ==
    [][\A origin \in Accounts, actor \in Actors, c \in CategoryIds, t \in ThreadIds :
          /\ \/ delete_thread(origin, actor, c, t)
             \/ moderate_thread(origin, actor, c, t, 1)
          /\ result' = "Ok"
          => /\ \A k \in DOMAIN ThreadById' : k[2] # t
             /\ PostsOf(PostById', t) = {}
             /\ \A x \in DOMAIN CategoryById \cup DOMAIN CategoryById' :
                    GetCategory(CategoryById', x).num_direct_threads =
                        GetCategory(CategoryById, x).num_direct_threads
                            - (IF x = c THEN 1 ELSE 0)]_vars

\* C4: every thread stored under key (C, T) has category_id = C; after a
\* successful move_thread_to_category(A, T, B) the thread is stored under B, no
\* longer under A, and its category_id is B.
C4_ThreadKeyedByItsCategory ==
    [][/\ \A k \in DOMAIN ThreadById' : ThreadById'[k].category_id = k[1]
       /\ \A origin \in Accounts, actor \in Actors, a \in CategoryIds, t \in ThreadIds,
             b \in CategoryIds :
              move_thread_to_category(origin, actor, a, t, b) /\ result' = "Ok"
              => /\ <<b, t>> \in DOMAIN ThreadById'
                 /\ <<a, t>> \notin DOMAIN ThreadById'
                 /\ ThreadById'[<<b, t>>].category_id = b]_vars

\* C10: when the migration is done, for a stored category C: if no thread is
\* stored under C and no stored category has C as its parent, delete_category(C)
\* by the Lead succeeds; if some thread is stored under C it fails with
\* CategoryNotEmptyThreads.
C10_DeleteCategoryFollowsContents ==
    [][\A c \in DOMAIN CategoryById :
          DataMigrationDone /\ delete_category(LeadAccount, Lead, c)
          => /\ (/\ ThreadsIn(ThreadById, c) = {}
                 /\ \A x \in DOMAIN CategoryById :
                        CategoryById[x].parent_category_id # Some(c))
                => result' = "Ok"
             /\ ThreadsIn(ThreadById, c) # {} => result' = "CategoryNotEmptyThreads"]_vars

(* ---- properties of failing calls ---- *)
\* C5: every call that returns an error (or aborts) leaves the whole stored state
\* as it was before the call and deposits no event.
C5_ErrorLeavesStateUnchanged ==
    [][result' # "Ok" => UNCHANGED store /\ events' = <<>>]_vars

\* A call has just failed in a state that holds a thread.
C5_Witness ==
    /\ result \notin {"Ok", "Init", "Panic"}
    /\ ThreadById # <<>>
    /\ ncalls > 1

(* ---- properties of archival ---- *)
Archived(category_id) ==
    \E x \in PathIds(category_id) : GetCategory(CategoryById, x).archived

ThreadAndPosts(threads, posts, category_id, thread_id) ==
    <<get(threads, <<category_id, thread_id>>, None),
      [k \in PostsOf(posts, thread_id) |-> posts[k]]>>

\* The calls on the thread (c, t) that C6 lists, create_thread in c apart.
ThreadCallOn(c, t) ==
    \E origin \in Accounts, actor \in Actors, u \in ForumUserIds :
        \/ edit_thread_title(origin, u, c, t, 2)
        \/ \E v \in BOOLEAN : update_thread_archival_status(origin, actor, c, t, v)
        \/ delete_thread(origin, actor, c, t)
        \/ moderate_thread(origin, actor, c, t, 1)
        \/ \E d \in CategoryIds : move_thread_to_category(origin, actor, c, t, d)
        \/ \E index \in VoteIndexes : vote_on_poll(origin, u, c, t, index)
        \/ add_post(origin, u, c, t, 1)
        \/ \E p \in PostIds : edit_post_text(origin, u, c, t, p, 2)
        \/ \E p \in PostIds : moderate_post(origin, actor, c, t, p, 1)

\* C6: while a category on the path from C to the root is archived, or the thread
\* itself is archived, create_thread in C and every call that changes a thread
\* stored under C or its posts fail, and the thread and its posts stay as they are.
C6_ArchivedBlocksThreadCalls ==
    [][\A c \in CategoryIds :
          /\ (/\ Archived(c)
               /\ \E origin \in Accounts, u \in ForumUserIds :
                      create_thread(origin, u, c, 1, 1, None))
              => result' # "Ok"
          /\ \A t \in ThreadIds :
                (/\ <<c, t>> \in DOMAIN ThreadById
                 /\ Archived(c) \/ ThreadById[<<c, t>>].archived
                 /\ ThreadCallOn(c, t))
                => /\ result' # "Ok"
                   /\ ThreadAndPosts(ThreadById', PostById', c, t)
                          = ThreadAndPosts(ThreadById, PostById, c, t)]_vars

(* ---- properties of the permission check ---- *)
AssignedOnPath(moderator_id, category_id) ==
    \E x \in PathIds(category_id) : <<x, moderator_id>> \in CategoryByModerator

IsEmptyCategory(category_id) ==
    /\ CategoryById[category_id].num_direct_threads = 0
    /\ CategoryById[category_id].num_direct_subcategories = 0

\* C7: for a stored category C, a Moderator m calling from m's account passes the
\* permission check of the privileged calls on C exactly when m is assigned to a
\* category on the path from C to the root, C included; so it is for
\* delete_category of an empty category C that is not a root; the Lead always
\* passes.
C7_PermissionIffAssignedOnPath ==
    \A c \in DOMAIN CategoryById, m \in ModeratorIds :
        /\ ensure_can_moderate_category(m, Moderator(m), c) = "Ok" <=> AssignedOnPath(m, c)
        /\ ensure_can_moderate_category(LeadAccount, Lead, c) = "Ok"
        /\ (CategoryById[c].parent_category_id # None /\ IsEmptyCategory(c))
           => /\ ensure_can_delete_category(m, Moderator(m), c) = "Ok"
                    <=> AssignedOnPath(m, c)
              /\ ensure_can_delete_category(LeadAccount, Lead, c) = "Ok"

\* The privileged calls of moderator m, from m's account, that target category c.
PrivilegedCallOn(m, c) ==
    \/ \E v \in BOOLEAN : update_category_archival_status(m, Moderator(m), c, v)
    \/ delete_category(m, Moderator(m), c)
    \/ \E ids \in AllInputs.sticky : set_stickied_threads(m, Moderator(m), c, ids)
    \/ \E t \in ThreadIds :
          \/ delete_thread(m, Moderator(m), c, t)
          \/ moderate_thread(m, Moderator(m), c, t, 1)
          \/ \E v \in BOOLEAN : update_thread_archival_status(m, Moderator(m), c, t, v)
          \/ \E p \in PostIds : moderate_post(m, Moderator(m), c, t, p, 1)
          \/ \E d \in CategoryIds :
                \/ move_thread_to_category(m, Moderator(m), c, t, d)
                \/ move_thread_to_category(m, Moderator(m), d, t, c)

AssignedOnlyTo(moderator_id, category_id) ==
    {x \in CategoryIds : <<x, moderator_id>> \in CategoryByModerator} = {category_id}

DropsByOne(old, new) == old # 0 /\ new = old - 1

\* C9: when the migration is done, delete_category by the Lead on a stored category
\* C succeeds exactly when C.num_direct_threads = 0 and
\* C.num_direct_subcategories = 0; otherwise it fails with CategoryNotEmptyThreads
\* (threads are checked first) or CategoryNotEmptyCategories and leaves the state
\* unchanged; on success C is removed and the num_direct_subcategories of its
\* parent and CategoryCounter drop by exactly one.
C9_DeleteCategoryIffEmpty ==
    [][\A c \in DOMAIN CategoryById :
          DataMigrationDone /\ delete_category(LeadAccount, Lead, c)
          => LET category == CategoryById[c]
                 parent == category.parent_category_id
             IN  /\ result' = "Ok" <=> IsEmptyCategory(c)
                 /\ category.num_direct_threads # 0 => result' = "CategoryNotEmptyThreads"
                 /\ (category.num_direct_threads = 0
                        /\ category.num_direct_subcategories # 0)
                    => result' = "CategoryNotEmptyCategories"
                 /\ result' # "Ok" => UNCHANGED store
                 /\ result' = "Ok"
                    => /\ c \notin DOMAIN CategoryById'
                       /\ DropsByOne(CategoryCounter, CategoryCounter')
                       /\ parent # None
                          => /\ parent[1] \in DOMAIN CategoryById'
                             /\ DropsByOne(
                                    GetCategory(CategoryById, parent[1]).num_direct_subcategories,
                                    CategoryById'[parent[1]].num_direct_subcategories)]_vars

(* ---- the counters of threads and categories ---- *)
\* C11: for every stored thread, num_direct_posts equals the number of posts stored
\* under that thread id in PostById.
C11_PostCounterMatches ==
    \A k \in DOMAIN ThreadById :
        ThreadById[k].num_direct_posts = Cardinality(PostsOf(PostById, k[2]))

ModeratorsOf(moderators, category_id) ==
    {m \in ModeratorIds : <<category_id, m>> \in moderators}

\* C12: for every stored category C, num_direct_moderators equals the number of
\* moderator ids m for which (C, m) is present in CategoryByModerator.
C12_ModeratorCounterMatches ==
    \A c \in DOMAIN CategoryById :
        CategoryById[c].num_direct_moderators
            = Cardinality(ModeratorsOf(CategoryByModerator, c))

ChildrenOf(cats, category_id) ==
    {c \in DOMAIN cats : cats[c].parent_category_id = Some(category_id)}

\* C13: for every stored category C, num_direct_subcategories equals the number of
\* stored categories whose parent_category_id is C.
C13_SubcategoryCounterMatches ==
    \A c \in DOMAIN CategoryById :
        CategoryById[c].num_direct_subcategories
            = Cardinality(ChildrenOf(CategoryById, c))

\* C15: CategoryCounter equals the number of categories stored in CategoryById and
\* never exceeds MaxCategories, and every stored category id is below NextCategoryId.
C15_CategoryCounterMatches ==
    /\ CategoryCounter = Cardinality(DOMAIN CategoryById)
    /\ CategoryCounter <= MaxCategories
    /\ \A c \in DOMAIN CategoryById : c < NextCategoryId

\* C14: the number of threads stored under any category is at most
\* MaxThreadsInCategory, whichever operation adds the thread.
C14_ThreadsWithinLimit ==
    \A c \in CategoryIds :
        Cardinality(ThreadsIn(ThreadById, c)) <= MaxThreadsInCategory

\* C16: the number of posts stored under any thread is at most MaxPostsInThread,
\* and add_post by a forum member on a stored, mutable thread fails with
\* MapSizeLimit if and only if the thread already holds MaxPostsInThread posts.
C16_PostsWithinLimit ==
    [][/\ \A t \in ThreadIds :
              Cardinality(PostsOf(PostById', t)) <= MaxPostsInThread
       /\ \A origin \in Accounts, u \in ForumUserIds, c \in CategoryIds, t \in ThreadIds :
              ( /\ DataMigrationDone
                /\ ensure_can_add_post(origin, u, c, t) = "Ok"
                /\ add_post(origin, u, c, t, 1) )
              => ( result' = "MapSizeLimit"
                     <=> Cardinality(PostsOf(PostById, t)) = MaxPostsInThread )]_vars

(* ---- the category tree ---- *)
PathOf(category_id) == build_category_tree_path(category_id)

ArchivedOnPath(category_id) ==
    \E c \in PathIds(category_id) : GetCategory(CategoryById, c).archived

\* C17: when the migration is done and CategoryCounter is below MaxCategories,
\* create_category by the Lead with a stored parent P whose path reaches a root
\* fails with MaxValidCategoryDepthExceeded if and only if the number of categories
\* on the path from P to the root, plus one, exceeds MaxCategoryDepth, whether or
\* not a category on that path is archived.
C17_DepthErrorIffTooDeep ==
    [][\A p \in DOMAIN CategoryById :
          ( /\ DataMigrationDone
            /\ ensure_map_limits(CategoryCounter, MaxCategories) = "Ok"
            /\ PathOf(p).ok
            /\ create_category(LeadAccount, Some(p), 1, 1) )
          => ( result' = "MaxValidCategoryDepthExceeded"
                 <=> Len(PathOf(p).path) + 1 > MaxCategoryDepth )]_vars

\* The Lead's create_category has just failed with MaxValidCategoryDepthExceeded
\* in a well-formed tree where every parent that is too deep has an archived
\* category on its path.
C17_Witness ==
    /\ result = "MaxValidCategoryDepthExceeded"
    /\ CategoryCounter = Cardinality(DOMAIN CategoryById)
    /\ CategoryCounter < MaxCategories
    /\ \A p \in DOMAIN CategoryById :
          /\ p < NextCategoryId
          /\ PathOf(p).ok
          /\ Len(PathOf(p).path) >= MaxCategoryDepth => ArchivedOnPath(p)

\* C18: following parent_category_id from any stored category reaches a root
\* without revisiting a category, visiting at most MaxCategoryDepth categories.
C18_AncestorWalkTerminates ==
    \A c \in DOMAIN CategoryById :
        /\ PathOf(c).ok
        /\ Cardinality(PathIds(c)) = Len(PathOf(c).path)
        /\ Len(PathOf(c).path) <= MaxCategoryDepth

\* C19: every stored category whose parent_category_id is Some(p) has p stored
\* in CategoryById.
C19_ParentStored ==
    \A c \in DOMAIN CategoryById :
        LET parent == CategoryById[c].parent_category_id IN
        parent # None => contains_key(CategoryById, parent[1])

(* ---- thread archival ---- *)
\* C20: for a stored thread with archived = TRUE in a stored category whose
\* ancestor chain is not archived, update_thread_archival_status with
\* new_archival_status = FALSE by the Lead succeeds and sets archived to FALSE.
C20_ThreadArchivalReversible ==
    [][\A c \in DOMAIN CategoryById, t \in ThreadIds :
          ( /\ DataMigrationDone
            /\ contains_key(ThreadById, <<c, t>>)
            /\ ThreadById[<<c, t>>].archived
            /\ PathOf(c).ok
            /\ ~ArchivedOnPath(c)
            /\ update_thread_archival_status(LeadAccount, Lead, c, t, FALSE) )
          => /\ result' = "Ok"
             /\ contains_key(ThreadById', <<c, t>>)
             /\ ~ThreadById'[<<c, t>>].archived]_vars

\* C21: when the migration is done, an archival update by the Lead that repeats
\* the current status is rejected and changes nothing:
\* update_category_archival_status on a stored category fails with
\* CategoryNotBeingUpdated, and update_thread_archival_status on a stored thread
\* of a category whose path is not archived fails with ThreadNotBeingUpdated,
\* whether the current status is TRUE or FALSE.
C21_RedundantArchivalRejected ==
    [][\A c \in DOMAIN CategoryById :
          DataMigrationDone /\ PathOf(c).ok
          => /\ update_category_archival_status(LeadAccount, Lead, c,
                                                 CategoryById[c].archived)
                => result' = "CategoryNotBeingUpdated" /\ UNCHANGED store
             /\ \A t \in ThreadIds :
                   ( /\ contains_key(ThreadById, <<c, t>>)
                     /\ ~ArchivedOnPath(c)
                     /\ update_thread_archival_status(LeadAccount, Lead, c, t,
                                                      ThreadById[<<c, t>>].archived) )
                   => result' = "ThreadNotBeingUpdated" /\ UNCHANGED store]_vars

(* ---- category archival ---- *)
\* C22: when the migration is done, update_category_archival_status by an actor
\* allowed to moderate the stored category C, with a status v other than the
\* current one, succeeds and changes nothing but the archived flag of C, also
\* when an ancestor of C is archived. Archiving (v = TRUE on a flag that is
\* FALSE) followed by un-archiving (v = FALSE on the flag that is now TRUE)
\* therefore returns the stored state to the one before archiving.
C22_CategoryArchivalRoundTrip ==
    [][\A c \in DOMAIN CategoryById, origin \in Accounts, actor \in Actors, v \in BOOLEAN :
          ( /\ DataMigrationDone
            /\ PathOf(c).ok
            /\ ensure_can_moderate_category(origin, actor, c) = "Ok"
            /\ CategoryById[c].archived = ~v
            /\ update_category_archival_status(origin, actor, c, v) )
          => /\ result' = "Ok"
             /\ CategoryById' = [CategoryById EXCEPT ![c].archived = v]
             /\ UNCHANGED <<NextCategoryId, CategoryCounter, ThreadById, NextThreadId,
                            PostById, NextPostId, CategoryByModerator,
                            DataMigrationDone>>]_vars

\* Subcategory 2 has just been un-archived while its parent, the root category 1,
\* is archived.
C22_Witness ==
    /\ result = "Ok"
    /\ events = <<<<"CategoryUpdated", 2, FALSE>>>>
    /\ PathOf(2).ok
    /\ PathOf(2).path = <<2, 1>>
    /\ CategoryById[1].archived
    /\ ~CategoryById[2].archived

(* ---- move_thread_to_category ---- *)
\* C23: when the migration is done, move_thread_to_category with category_id
\* equal to new_category_id fails with ThreadMoveInvalid for every account,
\* actor and thread id, stored or not, and changes nothing.
C23_MoveToSameCategoryInvalid ==
    [][\A origin \in Accounts, actor \in Actors, c \in CategoryIds, t \in ThreadIds :
          DataMigrationDone /\ move_thread_to_category(origin, actor, c, t, c)
          => /\ result' = "ThreadMoveInvalid"
             /\ events' = <<>>
             /\ UNCHANGED store]_vars

\* A move has just been rejected with ThreadMoveInvalid while a thread is stored.
C23_Witness ==
    /\ result = "ThreadMoveInvalid"
    /\ DataMigrationDone
    /\ DOMAIN ThreadById # {}

MayModerate(actor, category_id) ==
    actor.kind = "Lead" \/ AssignedOnPath(actor.id, category_id)

\* C24: when the migration is done, a move between two different stored categories
\* fails with ModeratorModerateOriginCategory exactly when the actor lacks the
\* permission on the source, and with ModeratorModerateDestinationCategory exactly
\* when it has the permission on the source and lacks it on the destination; an
\* actor id that does not match the account and a thread that is not stored under
\* the source are reported with their own errors.
C24_MoveErrorsNameTheirCause ==
    [][\A origin \in Accounts, actor \in Actors, c \in DOMAIN CategoryById,
         d \in DOMAIN CategoryById, t \in ThreadIds :
          ( /\ DataMigrationDone
            /\ c # d
            /\ PathOf(c).ok
            /\ PathOf(d).ok
            /\ move_thread_to_category(origin, actor, c, t, d) )
          => LET role == ensure_actor_role(origin, actor)
                 stored == contains_key(ThreadById, <<c, t>>)
             IN  /\ role # "Ok" => result' = role
                 /\ role = "Ok"
                    => /\ result' = "ModeratorModerateOriginCategory"
                             <=> ~MayModerate(actor, c)
                       /\ result' = "ModeratorModerateDestinationCategory"
                             <=> MayModerate(actor, c) /\ stored /\ ~MayModerate(actor, d)
                       /\ (MayModerate(actor, c) /\ ~stored)
                             => result' = "ThreadDoesNotExist"]_vars

(* ---- categories that are not stored ---- *)
CallOnCategory(category_id) ==
    \/ \E origin \in Accounts, u \in ForumUserIds, poll \in AllInputs.polls :
          create_thread(origin, u, category_id, 1, 1, poll)
    \/ \E origin \in Accounts, actor \in Actors, c \in CategoryIds, t \in ThreadIds :
          move_thread_to_category(origin, actor, c, t, category_id)
    \/ \E origin \in Accounts, actor \in Actors, ids \in AllInputs.sticky :
          set_stickied_threads(origin, actor, category_id, ids)

\* C25: create_thread in a category id that is not stored, move_thread_to_category
\* to such a destination and set_stickied_threads on such a category fail and
\* create no category or thread record.
C25_UnstoredCategoryRejected ==
    [][\A c \in CategoryIds :
          ~contains_key(CategoryById, c) /\ CallOnCategory(c)
          => /\ result' # "Ok"
             /\ ~contains_key(CategoryById', c)
             /\ ThreadsIn(ThreadById', c) = ThreadsIn(ThreadById, c)]_vars

IsRoot(category_id) == CategoryById[category_id].parent_category_id = None

\* C26: delete_category on a stored root category by a Moderator actor never
\* succeeds and leaves the category stored, also when the moderator is assigned
\* to the root; when the migration is done, the account is the moderator's and
\* the root is empty, the error is ModeratorCantDeleteCategory.
C26_RootDeletedByLeadOnly ==
    [][\A c \in DOMAIN CategoryById, origin \in Accounts, m \in ModeratorIds :
          IsRoot(c) /\ delete_category(origin, Moderator(m), c)
          => /\ result' # "Ok"
             /\ UNCHANGED store
             /\ ( /\ DataMigrationDone
                  /\ is_moderator(origin, m)
                  /\ IsEmptyCategory(c) )
                => result' = "ModeratorCantDeleteCategory"]_vars

\* A delete_category has just failed with ModeratorCantDeleteCategory while every
\* stored category is a root that moderator 1 is assigned to.
C26_Witness ==
    /\ result = "ModeratorCantDeleteCategory"
    /\ DOMAIN CategoryById # {}
    /\ \A c \in DOMAIN CategoryById :
          /\ IsRoot(c)
          /\ c < NextCategoryId
          /\ <<c, 1>> \in CategoryByModerator

(* ---- polls ---- *)
VotedPoll(poll, index) ==
    [poll EXCEPT !.poll_alternatives[index + 1].vote_count = @ + 1]

\* C27: a successful vote_on_poll(C, T, i) raises by exactly one the vote_count of
\* alternative i of the poll of the thread stored at (C, T) and changes nothing
\* else; votes are not deduplicated: the same vote by the same member right after
\* a successful one succeeds again while the poll is open.
C27_VoteCountsOnce ==
    [][\A origin \in Accounts, u \in ForumUserIds, c \in CategoryIds, t \in ThreadIds,
         i \in PollInputs.indexes :
          vote_on_poll(origin, u, c, t, i)
          => /\ result' = "Ok"
                => /\ contains_key(ThreadById, <<c, t>>)
                   /\ ThreadById[<<c, t>>].poll # None
                   /\ ThreadById' =
                         [ThreadById EXCEPT ![<<c, t>>].poll =
                             Some(VotedPoll(ThreadById[<<c, t>>].poll[1], i))]
                   /\ UNCHANGED <<CategoryById, NextCategoryId, CategoryCounter,
                                  NextThreadId, PostById, NextPostId,
                                  CategoryByModerator, DataMigrationDone>>
             /\ ( /\ result = "Ok"
                  /\ events = <<<<"VoteOnPoll", t, i>>>>
                  /\ call = <<Some(origin), c>>
                  /\ is_forum_member(origin, u)
                  /\ contains_key(ThreadById, <<c, t>>)
                  /\ ThreadById[<<c, t>>].poll # None
                  /\ ThreadById[<<c, t>>].poll[1].end_time >= now )
                => result' = "Ok"]_vars

\* C28: when the migration is done, vote_on_poll by a forum member on a stored,
\* mutable thread fails with PollNotExist when the thread has no poll, with
\* PollCommitExpired when the clock is past end_time, whatever the index, and with
\* PollData when the poll is open and index >= number of alternatives; it is
\* accepted otherwise, the clock equal to end_time included; a failed vote
\* changes no thread.
C28_VoteErrors ==
    [][\A k \in DOMAIN ThreadById :
          (DataMigrationDone /\ ensure_thread_is_mutable(k[1], k[2]) = "Ok")
          => \A u \in ForumUserIds, i \in PollInputs.indexes :
                \A origin \in {a \in Accounts : is_forum_member(a, u)} :
                   vote_on_poll(origin, u, k[1], k[2], i)
                   => LET poll == ThreadById[k].poll IN
                      /\ poll = None => result' = "PollNotExist"
                      /\ poll # None
                         => /\ poll[1].end_time < now => result' = "PollCommitExpired"
                            /\ ( /\ poll[1].end_time >= now
                                 /\ i >= Len(poll[1].poll_alternatives) )
                               => result' = "PollData"
                            /\ ( /\ poll[1].end_time >= now
                                 /\ i < Len(poll[1].poll_alternatives) )
                               => result' = "Ok"
                      /\ result' # "Ok" => UNCHANGED ThreadById]_vars

\* A vote has just been accepted with the clock at 0, the end_time of every poll
\* stored.
C28_Witness ==
    /\ result = "Ok"
    /\ Len(events) = 1
    /\ events[1][1] = "VoteOnPoll"
    /\ now = 0
    /\ \A k \in DOMAIN ThreadById :
          ThreadById[k].poll # None /\ ThreadById[k].poll[1].end_time = now

PollShape(poll) ==
    IF poll = None THEN None
    ELSE Some(<<poll[1].description_hash, poll[1].end_time, Len(poll[1].poll_alternatives)>>)

\* C29: in every step, for every thread record that stays stored, the poll's
\* description hash, end_time and number of alternatives do not change, a thread
\* without poll does not acquire one, no vote count decreases, and no vote count
\* changes while the clock is past end_time.
C29_PollOnlyGrows ==
    [][\A k \in DOMAIN ThreadById \cap DOMAIN ThreadById' :
          LET old == ThreadById[k].poll
              new == ThreadById'[k].poll
          IN  /\ PollShape(new) = PollShape(old)
              /\ old # None
                 => \A i \in 1..Len(old[1].poll_alternatives) :
                       /\ new[1].poll_alternatives[i].vote_count
                             >= old[1].poll_alternatives[i].vote_count
                       /\ old[1].end_time < now
                          => new[1].poll_alternatives[i].vote_count
                                = old[1].poll_alternatives[i].vote_count]_vars


\* C30: create_thread with a poll succeeds only if the number of alternatives
\* lies between the minimum and the minimum plus max_min_diff and end_time is
\* not before the current time; for a caller who may create the thread, too few
\* alternatives give PollAlternativesTooShort, too many PollAlternativesTooLong,
\* and an end_time in the past PollTimeSetting; a failed call changes no
\* thread, post, counter or next id.
C30_PollCheckedOnCreate ==
    [][\A c \in LengthInputs.categories, u \in LengthInputs.users,
          origin \in LengthInputs.accounts :
          \A p \in LengthInputs.polls \ {None} :
             create_thread(origin, u, c, 1, 1, p)
             => LET n == Len(p[1].poll_alternatives)
                    fits == /\ PollItemsMin <= n
                            /\ n <= PollItemsMin + PollItemsMaxMinDiff
                    allowed == /\ ensure_data_migration_done = "Ok"
                               /\ ensure_can_create_thread(origin, u, c) = "Ok"
                               /\ ensure_category_is_mutable(c) = "Ok"
                IN  /\ result' = "Ok" => fits /\ p[1].end_time >= now
                    /\ allowed /\ n < PollItemsMin
                       => result' = "PollAlternativesTooShort"
                    /\ allowed /\ n > PollItemsMin + PollItemsMaxMinDiff
                       => result' = "PollAlternativesTooLong"
                    /\ allowed /\ fits /\ p[1].end_time < now
                       => result' = "PollTimeSetting"
                    /\ result' # "Ok" => UNCHANGED store]_vars

\* C31: every dispatchable call that succeeds deposits exactly one event; a
\* successful update_category_membership_of_moderator deposits one too.
C31_OneEventPerSuccess ==
    (result = "Ok" /\ call # <<>> /\ call[1] # None) => Len(events) = 1

\* C32: edit_thread_title succeeds only for the thread's recorded author (a
\* member who is not the author of a mutable thread gets
\* AccountDoesNotMatchThreadAuthor) and edit_post_text only for the post's
\* recorded author (otherwise AccountDoesNotMatchPostAuthor); a successful edit
\* changes the title or text hash of the record addressed by the call, changes
\* nothing else and creates no record.
C32_OnlyAuthorEdits ==
    [][/\ \A origin \in AuthorInputs.accounts, u \in AuthorInputs.users,
             c \in AuthorInputs.categories, t \in AuthorInputs.threads :
             edit_thread_title(origin, u, c, t, 2)
             => /\ result' = "Ok"
                   => /\ contains_key(ThreadById, <<c, t>>)
                      /\ ThreadById[<<c, t>>].author_id = u
                      /\ ThreadById' = insert(ThreadById, <<c, t>>,
                                              [ThreadById[<<c, t>>]
                                                  EXCEPT !.title_hash = calculate_hash(2)])
                      /\ UNCHANGED <<CategoryById, PostById, CategoryByModerator>>
                /\ ( /\ is_forum_member(origin, u)
                     /\ ensure_thread_is_mutable(c, t) = "Ok"
                     /\ ThreadById[<<c, t>>].author_id # u )
                   => result' = "AccountDoesNotMatchThreadAuthor"
       /\ \A origin \in AuthorInputs.accounts, u \in AuthorInputs.users,
             c \in AuthorInputs.categories, t \in AuthorInputs.threads,
             p \in AuthorInputs.posts :
             edit_post_text(origin, u, c, t, p, 2)
             => /\ result' = "Ok"
                   => /\ contains_key(PostById, <<t, p>>)
                      /\ PostById[<<t, p>>].author_id = u
                      /\ PostById' = insert(PostById, <<t, p>>,
                                            [PostById[<<t, p>>]
                                                EXCEPT !.text_hash = calculate_hash(2)])
                      /\ UNCHANGED <<CategoryById, ThreadById, CategoryByModerator>>
                /\ ( /\ is_forum_member(origin, u)
                     /\ ensure_post_is_mutable(c, t, p) = "Ok"
                     /\ PostById[<<t, p>>].author_id # u )
                   => result' = "AccountDoesNotMatchPostAuthor"]_vars

\* C33: no step decrements a counter that is 0: num_direct_subcategories,
\* num_direct_threads and num_direct_moderators of a category,
\* num_direct_posts of a thread and CategoryCounter only go down from a
\* positive value, so the mutation phase of no call underflows.
C33_NoCounterUnderflow ==
    [][/\ CategoryCounter' < CategoryCounter => CategoryCounter > 0
       /\ \A c \in DOMAIN CategoryById' :
             LET old == GetCategory(CategoryById, c)
                 new == CategoryById'[c]
             IN  /\ new.num_direct_subcategories < old.num_direct_subcategories
                    => old.num_direct_subcategories > 0
                 /\ new.num_direct_threads < old.num_direct_threads
                    => old.num_direct_threads > 0
                 /\ new.num_direct_moderators < old.num_direct_moderators
                    => old.num_direct_moderators > 0
       /\ \A k \in DOMAIN ThreadById' :
             LET old == GetThread(ThreadById, k[1], k[2])
                 new == ThreadById'[k]
             IN  new.num_direct_posts < old.num_direct_posts
                 => old.num_direct_posts > 0]_vars

\* C34: NextCategoryId, NextThreadId and NextPostId never decrease; every
\* stored category, thread and post has an id below the next id, so a creation
\* uses an id that was never used; after a successful delete_thread or
\* moderate_thread of thread T no thread with id T is stored under any
\* category, and a thread id that was handed out and is stored nowhere stays so.
C34_IdsNeverReused ==
    [][LET Stored(threads, t) == \E k \in DOMAIN threads : k[2] = t IN
       /\ NextCategoryId' >= NextCategoryId
       /\ NextThreadId' >= NextThreadId
       /\ NextPostId' >= NextPostId
       /\ \A c \in DOMAIN CategoryById' : c < NextCategoryId'
       /\ \A k \in DOMAIN ThreadById' : k[2] < NextThreadId'
       /\ \A k \in DOMAIN PostById' : k[2] < NextPostId'
       /\ \A origin \in ThreadInputs.accounts, actor \in ThreadInputs.actors,
             c \in ThreadInputs.categories, t \in ThreadInputs.threads :
             ( /\ \/ delete_thread(origin, actor, c, t)
                  \/ moderate_thread(origin, actor, c, t, 1)
               /\ result' = "Ok" )
             => ~Stored(ThreadById', t)
       /\ \A t \in ThreadIds :
             (t < NextThreadId /\ ~Stored(ThreadById, t)) => ~Stored(ThreadById', t)]_vars

\* C36: each thread id is stored under at most one category key of ThreadById.
C36_ThreadUnderOneCategory ==
    \A k1 \in DOMAIN ThreadById, k2 \in DOMAIN ThreadById : k1[2] = k2[2] => k1 = k2

\* C37: when moderator m is assigned to a stored category C, the Lead's
\* update_category_membership_of_moderator(m, C, false) succeeds and removes
\* the assignment, also when C holds MaxModeratorsForCategory moderators.
C37_RemovalIgnoresCapacity ==
    [][\A m \in MemberInputs.moderators, c \in MemberInputs.categories :
          ( /\ DataMigrationDone
            /\ contains_key(CategoryById, c)
            /\ <<c, m>> \in CategoryByModerator
            /\ update_category_membership_of_moderator(LeadAccount, m, c, FALSE) )
          => /\ result' = "Ok"
             /\ <<c, m>> \notin CategoryByModerator']_vars

\* C38: a poll supplied to create_thread is stored with the vote_count of every
\* alternative equal to 0, the number of votes cast on the new thread.
C38_PollStoredWithoutVotes ==
    [][\A c \in VoteInputs.categories, p \in VoteInputs.polls \ {None} :
          (create_thread(1, 1, c, 1, 1, p) /\ result' = "Ok")
          => LET stored == ThreadById'[<<c, NextThreadId>>].poll IN
             /\ stored # None
             /\ \A i \in DOMAIN stored[1].poll_alternatives :
                   stored[1].poll_alternatives[i].vote_count = 0]_vars

\* C39: set_stickied_threads by an actor who may moderate the category fails
\* with ThreadDoesNotExist if a listed id is not a thread stored under the
\* category and otherwise replaces the list exactly; every id in the
\* sticky_thread_ids of a stored category is a thread stored under that category.
C39_StickyThreadsStored ==
    [][/\ \A origin \in ModerationInputs.accounts, actor \in ModerationInputs.actors,
             c \in ModerationInputs.categories, ids \in ModerationInputs.sticky :
             set_stickied_threads(origin, actor, c, ids)
             => LET listed == \A i \in 1..Len(ids) :
                                 contains_key(ThreadById, <<c, ids[i]>>)
                IN  /\ ( /\ DataMigrationDone
                         /\ ensure_can_moderate_category(origin, actor, c) = "Ok"
                         /\ ~listed )
                       => result' = "ThreadDoesNotExist"
                    /\ result' = "Ok"
                       => /\ listed
                          /\ CategoryById'[c].sticky_thread_ids = ids
       /\ \A c \in DOMAIN CategoryById' :
             \A i \in 1..Len(CategoryById'[c].sticky_thread_ids) :
                contains_key(ThreadById', <<c, CategoryById'[c].sticky_thread_ids[i]>>)]_vars

\* C40: while DataMigrationDone is false every call, of a dispatchable or of
\* add_new_thread or add_new_post, returns DataMigrationNotDone whatever its
\* arguments, deposits no event and leaves categories, threads, posts,
\* moderator assignments, counters and next ids unchanged.
C40_NothingBeforeMigration ==
    [][(~DataMigrationDone /\ ncalls' # ncalls /\ now' = now)
       => /\ result' = "DataMigrationNotDone"
          /\ events' = <<>>
          /\ UNCHANGED store]_vars

\* A call was rejected while the migration flag is false.
C40_Witness ==
    ~DataMigrationDone /\ ncalls > 0 /\ result = "DataMigrationNotDone"

\* C35: in the blog module, while a stored post is locked, edit_post by the
\* blog owner and create_reply, edit_reply and react (with a reaction index in
\* range) by a participant on that post fail with PostLockedError, leave the
\* posts and replies unchanged and deposit no event; unlock_post by the owner
\* clears the lock and changes nothing else, and on an unlocked post the calls
\* succeed: edit_post always, create_reply below the replies limit, edit_reply
\* of the caller's own reply, and each call that names a reply when it is stored.
C35_LockedPostRejectsCalls ==
    [][\A p \in DOMAIN BlogPostById :
          LET locked == BlogPostById[p].locked
              Rejected == /\ result' = "PostLockedError"
                          /\ events' = <<>>
                          /\ UNCHANGED blog
              Stored(r) == r = None \/ contains_key(ReplyById, <<p, r[1]>>)
          IN
          /\ \A new_title \in {None, Some(2)}, new_body \in {None, Some(2)} :
                edit_post(Root, p, new_title, new_body)
                => IF locked THEN Rejected ELSE result' = "Ok"
          /\ unlock_post(Root, p)
             => /\ result' = "Ok"
                /\ BlogPostById' = insert(BlogPostById, p,
                                          [BlogPostById[p] EXCEPT !.locked = FALSE])
                /\ UNCHANGED <<PostCount, ReplyById>>
          /\ \A origin \in BlogOrigins, u \in {1} :
                ensure_valid_participant(origin, u) = "Ok"
                => /\ \A r \in {None} \cup {Some(x) : x \in BlogReplyInputs} :
                         create_reply(origin, u, p, r, 1)
                         => IF locked THEN Rejected
                            ELSE ( /\ BlogPostById[p].replies_count < RepliesMaxNumber
                                   /\ Stored(r) )
                                 => result' = "Ok"
                   /\ \A x \in BlogReplyInputs :
                         edit_reply(origin, u, p, x, 2)
                         => IF locked THEN Rejected
                            ELSE ( /\ contains_key(ReplyById, <<p, x>>)
                                   /\ ReplyById[<<p, x>>].owner = u )
                                 => result' = "Ok"
                   /\ \A i \in 0..(REACTIONS_MAX_NUMBER - 1),
                         r \in {None} \cup {Some(x) : x \in BlogReplyInputs} :
                         react(origin, u, i, p, r)
                         => IF locked THEN Rejected
                            ELSE Stored(r) => result' = "Ok"]_vars

\* A call on a locked post that holds a reply was rejected.
C35_Witness ==
    /\ result = "PostLockedError"
    /\ \E p \in DOMAIN BlogPostById :
          /\ BlogPostById[p].locked
          /\ contains_key(ReplyById, <<p, 0>>)

====
